---- MODULE Spec2Model ----
(***************************************************************************)
(* Model of the load generation engine of opensearch-loadtest:             *)
(* LoadTester (src/src/loadtest/load_tester.py), MetricsCollector          *)
(* (src/src/loadtest/metrics.py), ObservabilityMonitor                     *)
(* (src/src/utils/observability.py), ClusterMonitor                        *)
(* (src/src/utils/cluster_monitor.py), CPUMonitor                          *)
(* (src/src/utils/cpu_monitor.py), RampBuilder                             *)
(* (src/src/utils/ramp_builder.py), ConcurrencyController                  *)
(* (src/src/utils/concurrency_controller.py) and WALLogger                 *)
(* (src/src/utils/wal_logger.py).                                          *)
(*                                                                         *)
(* Spec is the run of LoadTester.run_test in an environment where the log  *)
(* directory can become unwritable and a request can hang; LoadSpec is the *)
(* same run without these faults and with a two-worker ramp; MonitorSpec   *)
(* and TrackerSpec exercise a health monitor and an ObservabilityMonitor   *)
(* by themselves; LockSpec has several threads call one                    *)
(* ObservabilityMonitor, each read and write of a counter a step of its    *)
(* own; FunctionSpec applies the schedule lookups and the RampBuilder      *)
(* methods to arguments drawn from bounded sets, and constructs            *)
(* LoadTestConfig objects; MetricsSpec exercises a MetricsCollector by     *)
(* itself; ConcurrencySpec has a started ConcurrencyController called      *)
(* while its worker threads run.  Floats are IEEE 754 binary64 values,     *)
(* rounded as the interpreter rounds them.                                 *)
(*                                                                         *)
(* Time is counted in whole seconds.  time.time() is never stored: each    *)
(* difference the code computes from it is a variable advanced by Tick     *)
(* (elapsed = time.time() - test_start_time, main_left = duration_seconds  *)
(* - (time.time() - start_time), ...).                                     *)
(***************************************************************************)
EXTENDS Integers, Sequences, FiniteSets, TLC

\* ------------------------------------------------------------------ bounds
\* total number of QueryExecutor calls of one run
MaxCalls == 2
\* highest concurrency of a schedule of the plans
MaxConcurrency == 1
\* how often the log directory changes between writable and not writable
MaxFaultChanges == 1
\* seconds a rate worker is counted to be behind its next_request_time
MaxLate == 1
\* polls of a health monitor that is exercised on its own
MaxPolls == 3
\* start_request calls made to a tracker that is exercised on its own
MaxRequests == 3
\* steps of the schedules that are looked up, and the latest elapsed time
MaxScheduleLen == 3
MaxElapsed == 7
\* records made in a collector that is exercised on its own, and the records
\* a collector holds before that
MaxRecords == 3
MaxPile == 11
\* the most steps a RampBuilder method is asked for
MaxSteps == 26
\* threads that share one tracker, and the requests each of them makes
MaxThreads == 2
MaxRounds == 2
\* worker threads a ConcurrencyController starts in all, the calls made to
\* it, and the highest concurrency that is asked for
MaxSpawned == 3
MaxControllerCalls == 3
MaxTarget == 2

Max(a, b) == IF a >= b THEN a ELSE b
Min(a, b) == IF a <= b THEN a ELSE b

\* ------------------------------------------------------------ configuration
\* ConcurrencyRamp / QPSRamp: a step of a schedule
Ramp(v, d) == [value |-> v, duration_seconds |-> d]
\* a target value is an int/float (const) or a list of ramps
ConstTarget(v) == [const |-> TRUE, value |-> v, ramp |-> <<>>]
RampTarget(r) == [const |-> FALSE, value |-> 0, ramp |-> r]

\* QueryConfig
QueryConfig(mode, target) == [load_mode |-> mode, target |-> target]

\* LoadTestConfig
LoadTestConfig(queries, duration, warmup) ==
  [queries |-> queries, duration_seconds |-> duration,
   warmup_enabled |-> warmup, warmup_duration_seconds |-> 1]

\* what apply_single_group_config_to_queries and
\* apply_single_query_config_to_queries make of a query they exclude
excluded_query == QueryConfig("concurrency", RampTarget(<<Ramp(0, 1)>>))

\* the plans the model runs: a concurrency ramp that falls to zero, the same
\* ramp after a warmup, a rate ramp that starts at zero, a target switched
\* off by the schedule [0 for 1 s], and a warmup of two targets whose main
\* phase is switched off, one of them by exclusion
Plans ==
  { LoadTestConfig(<<QueryConfig("concurrency",
                       RampTarget(<<Ramp(MaxConcurrency, 1), Ramp(0, 1)>>))>>, 2, FALSE),
    LoadTestConfig(<<QueryConfig("concurrency",
                       RampTarget(<<Ramp(1, 1), Ramp(0, 1)>>))>>, 1, TRUE),
    LoadTestConfig(<<QueryConfig("qps", RampTarget(<<Ramp(0, 1), Ramp(1, 1)>>))>>, 1, FALSE),
    LoadTestConfig(<<excluded_query>>, 1, FALSE),
    LoadTestConfig(<<QueryConfig("concurrency", ConstTarget(0)), excluded_query>>,
                   1, TRUE) }

\* a concurrency ramp that rises, run by LoadSpec beside the plans above
RampPlans ==
  { LoadTestConfig(<<QueryConfig("concurrency",
                       RampTarget(<<Ramp(1, 1), Ramp(2, 1)>>))>>, 2, FALSE) }

\* no run of LoadTester: the configuration of the states in which a monitor
\* or a tracker is exercised on its own
NoPlan == LoadTestConfig(<<>>, 0, FALSE)

\* samples of the highest data node CPU the cluster monitor can read
CpuSamples == {50, 75, 85}
cpu_threshold == 80
\* the margin below the threshold at which ClusterMonitor resumes
cluster_hysteresis == 10
\* CPUMonitor: default threshold, and the margin at which it resumes
cpu_monitor_threshold == 90
cpu_hysteresis == 5

\* --------------------------------------------------------------- lookups
RECURSIVE LookupFromExclusive(_, _, _, _)
\* mutant: an elapsed time on the boundary of a step belongs to the next step
LookupFromExclusive(ramp, i, cumulative_time, el) ==
  IF i > Len(ramp) THEN ramp[Len(ramp)].value
  ELSE IF el < cumulative_time + ramp[i].duration_seconds THEN ramp[i].value
  ELSE LookupFromExclusive(ramp, i + 1, cumulative_time + ramp[i].duration_seconds, el)

RECURSIVE LookupFrom(_, _, _, _)
\* the for loop of _get_current_concurrency / _get_current_qps
LookupFrom(ramp, i, cumulative_time, el) ==
  IF i > Len(ramp) THEN ramp[Len(ramp)].value
  ELSE IF el <= cumulative_time + ramp[i].duration_seconds THEN ramp[i].value
  ELSE LookupFrom(ramp, i + 1, cumulative_time + ramp[i].duration_seconds, el)

_get_current_concurrency(qc, el) ==
  IF qc.target.const THEN qc.target.value
  ELSE IF Len(qc.target.ramp) = 0 THEN 1
  ELSE LookupFrom(qc.target.ramp, 1, 0, el)

_get_current_qps(qc, el) ==
  IF qc.target.const THEN qc.target.value
  ELSE IF Len(qc.target.ramp) = 0 THEN 0
  ELSE LookupFrom(qc.target.ramp, 1, 0, el)

RECURSIVE MaxOfRamp(_, _)
MaxOfRamp(ramp, i) ==
  IF i = Len(ramp) THEN ramp[i].value
  ELSE Max(ramp[i].value, MaxOfRamp(ramp, i + 1))

_get_max_concurrency(qc) ==
  IF qc.target.const THEN qc.target.value
  ELSE IF Len(qc.target.ramp) = 0 THEN 1
  ELSE MaxOfRamp(qc.target.ramp, 1)

\* ------------------------------------------------------------------ state
VARIABLES
  config,            \* LoadTestConfig of this run
  ctl,               \* position of the thread that runs run_test
  execution_log,     \* the lifecycle lines run_test has written to the WAL
  join_i,            \* index of the future run_test is waiting for
  stop_event,        \* self._stop_event
  shutdown_initiated,\* self._shutdown_initiated
  load_paused,       \* self._load_paused
  warmup_stop_event, \* self._warmup_stop_event: "absent", "clear" or "set"
  is_paused,         \* ClusterMonitor.is_paused
  cluster_running,   \* ClusterMonitor.running
  elapsed,           \* time.time() - self.test_start_time
  warm_left,         \* warmup_duration_seconds - (time.time() - warmup_start)
  main_left,         \* duration_seconds - (time.time() - start_time)
  pc,                \* position of every worker
  timer,             \* seconds a sleeping worker still sleeps
  attempt,           \* the executor call a worker is making
  raising,           \* a worker has an exception in flight
  next_in,           \* next_request_time - time.time() of a rate worker
  interval,          \* interval of a rate worker
  calls,             \* QueryExecutor calls made so far
  metrics,           \* MetricsCollector._metrics
  concurrent_requests,       \* ObservabilityMonitor.concurrent_requests
  max_concurrency,           \* ObservabilityMonitor.max_concurrency
  per_query_max_concurrency, \* ObservabilityMonitor.per_query_max_concurrency
  wal_fault,         \* open(log_file, 'a') of WALLogger.log fails
  fault_changes,     \* changes of wal_fault so far
  results,           \* what run_test returned
  mon,               \* a CPUMonitor or ClusterMonitor exercised on its own
  obs,               \* the calls made to an ObservabilityMonitor on its own
  thr,               \* threads calling one ObservabilityMonitor, and its lock
  call,              \* a call of a schedule lookup or of a RampBuilder method
  coll,              \* a MetricsCollector exercised on its own
  cc                 \* a ConcurrencyController, its queue and its worker threads

vars == <<config, ctl, execution_log, join_i, stop_event, shutdown_initiated, load_paused,
          warmup_stop_event, is_paused, cluster_running, elapsed,
          warm_left, main_left, pc, timer, next_in, interval, attempt, raising,
          calls,
          metrics,
          concurrent_requests, max_concurrency, per_query_max_concurrency,
          wal_fault, fault_changes, results, mon, obs, thr, call, coll, cc>>

\* workers_needed of run_test
workers_needed(qc) ==
  IF qc.load_mode = "concurrency" THEN _get_max_concurrency(qc) ELSE 1

SetMax(S) == CHOOSE x \in S : \A y \in S : y <= x
\* the longest list of queries and the largest workers_needed of the plans
MaxQueries == SetMax({Len(p.queries) : p \in Plans \cup RampPlans})
MaxPerQuery ==
  SetMax(UNION {{workers_needed(p.queries[i]) : i \in 1..Len(p.queries)} :
                  p \in Plans \cup RampPlans})

\* workers: kind "main" (_query_worker) or "warmup" (_warmup_worker)
Worker(kind, q, k) == [kind |-> kind, q |-> q, k |-> k]
MainWorkers == {Worker("main", q, k) : q \in 1..MaxQueries, k \in 0..(MaxPerQuery - 1)}
WarmupWorkers == {Worker("warmup", q, 0) : q \in 1..MaxQueries}
Workers == MainWorkers \cup WarmupWorkers

\* query_config.name of the requests of a worker ("warmup_" + name in warmup)
Name(w) == <<w.kind, w.q>>
Names == {Name(w) : w \in Workers}

QC(w) == config.queries[w.q]

\* the futures list of run_test, as a set
Submitted ==
  {w \in MainWorkers : w.q <= Len(config.queries) /\ w.k < workers_needed(config.queries[w.q])}
SubmittedWarmup == {w \in WarmupWorkers : w.q <= Len(config.queries)}

RECURSIVE LastBoundary(_, _)
\* the cumulative end of the last but one step of a schedule: every lookup
\* past it returns the value of the last step
LastBoundary(ramp, i) ==
  IF i >= Len(ramp) THEN 0 ELSE ramp[i].duration_seconds + LastBoundary(ramp, i + 1)

RECURSIVE LatestBoundary(_, _)
LatestBoundary(qs, i) ==
  IF i > Len(qs) THEN 0
  ELSE Max(IF qs[i].target.const THEN 0 ELSE LastBoundary(qs[i].target.ramp, 1),
           LatestBoundary(qs, i + 1))

\* elapsed is counted up to one second past the last boundary of the
\* schedules of the plan: no lookup tells later instants apart
ElapsedCap == IF LatestBoundary(config.queries, 1) = 0 THEN 0
              ELSE LatestBoundary(config.queries, 1) + 1

RECURSIVE SumMaxConcurrency(_, _)
SumMaxConcurrency(qs, i) ==
  IF i > Len(qs) THEN 0 ELSE _get_max_concurrency(qs[i]) + SumMaxConcurrency(qs, i + 1)

\* max_workers of the ThreadPoolExecutor
max_workers == Max(50, SumMaxConcurrency(config.queries, 1) + 20)

Finished(w) == pc[w] \in {"done", "crashed"}
\* worker threads of the pool that are running a task
Busy == {w \in Workers : pc[w] \notin {"none", "submitted", "done", "crashed"}}

\* QueryGroup values a request is started with; "None" is no group
Groups == {"None", "text_querying"}

\* a monitor after __init__
MonitorNew(kind, registered) ==
  [kind |-> kind, registered |-> registered, running |-> FALSE,
   is_paused |-> FALSE, thread |-> "none", probe |-> "none", sample |-> 0,
   callbacks |-> <<>>, polls |-> 0]

\* the driver of a tracker before its first call; op is the method called last
TrackerNew ==
  [starts |-> 0, ends |-> 0, phase |-> "starts", op |-> "none",
   group_concurrent_requests |-> [g \in Groups \ {"None"} |-> 0], last_read |-> 0]

\* threads that call one ObservabilityMonitor, and the queries they name
Threads == 1..MaxThreads
\* the holder of a lock nobody holds
NoThread == 0
SharedNames == {n \in Names : n[1] = "main"}

\* the threads before their first call; begun, ended and peak count the
\* calls that returned and the most requests that were in flight at once
ThreadsNew ==
  [lock |-> NoThread,
   pc |-> [t \in Threads |-> "idle"],
   query_name |-> [t \in Threads |-> CHOOSE n \in SharedNames : TRUE],
   query_group |-> [t \in Threads |-> "None"],
   tmp |-> [t \in Threads |-> 0],
   rounds |-> [t \in Threads |-> 0],
   begun |-> [n \in SharedNames |-> 0],
   ended |-> [n \in SharedNames |-> 0],
   peak |-> 0]

\* no lookup or builder call has been made
CallNew == [op |-> "none"]

\* MetricsCollector after __init__, and no summary taken
CollectorNew == [metrics |-> <<>>, summary |-> <<>>, summarized |-> 0 - 1, period |-> 1]

\* the threads a ConcurrencyController can start, the queries it is given,
\* and the None that tells a worker to stop
ControllerThreads == 1..MaxSpawned
ControllerQueries == {"q1", "q2"}
Sentinel == "None"

\* ConcurrencyController after __init__, for one group: has_queue says that
\* the group is in query_queues and active_workers; passed counts how often
\* a query was given to set_concurrency; raised is the exception the last
\* call ended with
ControllerNew ==
  [running |-> FALSE,
   target |-> 0,
   has_queue |-> FALSE,
   queue |-> <<>>,
   active |-> {},
   pc |-> [t \in ControllerThreads |-> "unborn"],
   query |-> [t \in ControllerThreads |-> "none"],
   passed |-> [q \in ControllerQueries |-> 0],
   calls |-> 0,
   raised |-> "none"]

\* the units that are exercised on their own, at rest
UnitsIdle ==
  /\ thr = ThreadsNew
  /\ call = CallNew
  /\ coll = CollectorNew
  /\ cc = ControllerNew

unitVars == <<thr, call, coll, cc>>

\* LoadTester after __init__, about to run one of plans
RunInit(plans) ==
  /\ config \in plans
  /\ ctl = "idle"
  /\ execution_log = <<>>
  /\ join_i = 0
  /\ stop_event = FALSE
  /\ shutdown_initiated = FALSE
  /\ load_paused = FALSE
  /\ warmup_stop_event = "absent"
  /\ is_paused = FALSE
  /\ cluster_running = FALSE
  /\ elapsed = 0
  /\ warm_left = 0
  /\ main_left = 0
  /\ pc = [w \in Workers |-> "none"]
  /\ timer = [w \in Workers |-> 0]
  /\ next_in = [w \in Workers |-> 0]
  /\ interval = [w \in Workers |-> 0]
  /\ attempt = [w \in Workers |-> 0]
  /\ raising = [w \in Workers |-> FALSE]
  /\ calls = 0
  /\ metrics = <<>>
  /\ concurrent_requests = [n \in Names |-> 0]
  /\ max_concurrency = 0
  /\ per_query_max_concurrency = [n \in Names |-> 0]
  /\ wal_fault = FALSE
  /\ fault_changes = 0
  /\ results = [total |-> 0, success |-> 0, errors |-> 0]

Init ==
  /\ RunInit(Plans)
  /\ mon = MonitorNew("cluster", TRUE)
  /\ obs = TrackerNew
  /\ UnitsIdle

\* ------------------------------------------------------------ collaborators
\* WALLogger.log: the open() of the log file is not guarded
WalRaises == wal_fault

\* MetricsCollector.record
record(m, success, query_name, att) ==
  Append(m, [query_name |-> query_name, success |-> success, attempt |-> att])

RECURSIVE SumOver(_, _)
SumOver(f, S) ==
  IF S = {} THEN 0
  ELSE LET n == CHOOSE x \in S : TRUE IN f[n] + SumOver(f, S \ {n})

\* mutant: the global maximum follows the count of the query, not the total
start_request_by_query(n) ==
  LET cr == [concurrent_requests EXCEPT ![n] = @ + 1] IN
  /\ concurrent_requests' = cr
  /\ max_concurrency' = Max(max_concurrency, cr[n])
  /\ per_query_max_concurrency' =
       [per_query_max_concurrency EXCEPT ![n] = Max(@, cr[n])]

\* mutant: start_request leaves the global maximum to get_max_concurrency
start_request_lazy_max(n) ==
  LET cr == [concurrent_requests EXCEPT ![n] = @ + 1] IN
  /\ concurrent_requests' = cr
  /\ max_concurrency' = max_concurrency
  /\ per_query_max_concurrency' =
       [per_query_max_concurrency EXCEPT ![n] = Max(@, cr[n])]

\* ObservabilityMonitor.start_request
start_request(n) ==
  LET cr == [concurrent_requests EXCEPT ![n] = @ + 1] IN
  /\ concurrent_requests' = cr
  /\ max_concurrency' = Max(max_concurrency, SumOver(cr, Names))
  /\ per_query_max_concurrency' =
       [per_query_max_concurrency EXCEPT ![n] = Max(@, cr[n])]

\* mutant: the end of a request brings the maxima down to the current counts
end_request_resetting(n) ==
  LET cr == [concurrent_requests EXCEPT ![n] = Max(0, @ - 1)] IN
  /\ concurrent_requests' = cr
  /\ max_concurrency' = SumOver(cr, Names)
  /\ per_query_max_concurrency' = cr

\* mutant: the end of a request decrements without the clamp at zero
end_request_unclamped(n) ==
  /\ concurrent_requests' = [concurrent_requests EXCEPT ![n] = @ - 1]
  /\ UNCHANGED <<max_concurrency, per_query_max_concurrency>>

\* mutant: the end of a request is not recorded
end_request_skipped(n) ==
  UNCHANGED <<concurrent_requests, max_concurrency, per_query_max_concurrency>>

\* ObservabilityMonitor.end_request
end_request(n) ==
  /\ concurrent_requests' = [concurrent_requests EXCEPT ![n] = Max(0, @ - 1)]
  /\ UNCHANGED <<max_concurrency, per_query_max_concurrency>>

ctlVars == <<config, ctl, execution_log, join_i, shutdown_initiated, load_paused,
            results>>
flagVars == <<stop_event, warmup_stop_event>>
monVars == <<is_paused, cluster_running>>
timeVars == <<elapsed, warm_left, main_left>>
trackVars == <<concurrent_requests, max_concurrency, per_query_max_concurrency>>
\* what a step of the run of LoadTester leaves alone but for WalFaultChange
envVars == <<wal_fault, fault_changes, mon, obs, thr, call, coll, cc>>

\* ------------------------------------------------------------ main workers
\* a pool thread picks the task up; _query_worker logs WORKER_START and
\* enters the worker of its load mode; _warmup_worker starts at line 405
WorkerStart(w) ==
  /\ pc[w] = "submitted"
  /\ Cardinality(Busy) < max_workers
  /\ pc' = [pc EXCEPT ![w] =
       IF w.kind = "warmup" THEN "w_getattr"
       ELSE IF WalRaises THEN "crashed"
       ELSE IF QC(w).load_mode = "concurrency" THEN "loop"
       ELSE "qps_init"]
  /\ UNCHANGED <<ctlVars, flagVars, monVars, timeVars, trackVars, envVars,
                 timer, next_in, interval, attempt, raising, calls, metrics>>

\* _qps_worker before its loop: the random initial delay
QpsInit(w) ==
  /\ pc[w] = "qps_init"
  /\ \E initial_delay \in 0..1 :
       timer' = [timer EXCEPT ![w] =
         IF _get_current_qps(QC(w), elapsed) > 0 THEN initial_delay ELSE 0]
  /\ pc' = [pc EXCEPT ![w] = "qps_delay"]
  /\ UNCHANGED <<ctlVars, flagVars, monVars, timeVars, trackVars, envVars,
                 next_in, interval, attempt, raising, calls, metrics>>

\* time.sleep(initial_delay) returns; next_request_time = time.time()
QpsDelayDone(w) ==
  /\ pc[w] = "qps_delay"
  /\ timer[w] = 0
  /\ next_in' = [next_in EXCEPT ![w] = 0]
  /\ pc' = [pc EXCEPT ![w] = "loop"]
  /\ UNCHANGED <<ctlVars, flagVars, monVars, timeVars, trackVars, envVars,
                 timer, interval, attempt, raising, calls, metrics>>

\* mutant: a worker is active at a target concurrency of zero
worker_should_be_active_at_zero(target_concurrency) == target_concurrency >= 0

\* worker_should_be_active of _concurrency_worker
worker_should_be_active(target_concurrency) == target_concurrency > 0

\* interval of _qps_worker, in seconds
Interval(current_qps, total_workers) ==
  IF current_qps > 0 THEN total_workers \div current_qps ELSE 100

\* mutant: a worker holds its fire while the pause flag is set
may_fire_unless_paused(paused) == ~paused

\* what the pause flag of the cluster monitor means to a worker about to
\* issue a request: "Execute query regardless of CPU (no pausing)"
may_fire(paused) == TRUE

\* one evaluation of the while condition of _concurrency_worker / _qps_worker
\* and the branch taken after it
LoopCheck(w) ==
  /\ pc[w] = "loop"
  /\ IF stop_event
       THEN /\ pc' = [pc EXCEPT ![w] = "end"]
            /\ UNCHANGED <<timer, next_in, interval>>
     ELSE IF QC(w).load_mode = "concurrency"
       THEN /\ pc' = [pc EXCEPT ![w] =
                 IF /\ worker_should_be_active(_get_current_concurrency(QC(w), elapsed))
                    /\ may_fire(is_paused)
                 THEN "call" ELSE "idle"]
            /\ UNCHANGED <<timer, next_in, interval>>
     ELSE IF _get_current_qps(QC(w), elapsed) <= 0 \/ ~may_fire(is_paused)
       THEN /\ pc' = [pc EXCEPT ![w] = "qps_sleep"]
            /\ timer' = [timer EXCEPT ![w] = 1]
            /\ UNCHANGED <<next_in, interval>>
     ELSE /\ interval' = [interval EXCEPT ![w] =
               Interval(_get_current_qps(QC(w), elapsed), workers_needed(QC(w)))]
          /\ timer' = [timer EXCEPT ![w] = Max(0, next_in[w])]
          /\ pc' = [pc EXCEPT ![w] = "qps_wait"]
          /\ UNCHANGED next_in
  /\ UNCHANGED <<ctlVars, flagVars, monVars, timeVars, trackVars, envVars,
                 attempt, raising, calls, metrics>>

\* time.sleep(0.1) of an inactive concurrency worker, time.sleep(1) of a rate
\* worker whose rate is 0: back to the while condition
SleepDone(w) ==
  /\ \/ pc[w] = "idle"
     \/ pc[w] = "qps_sleep" /\ timer[w] = 0
  /\ pc' = [pc EXCEPT ![w] = "loop"]
  /\ UNCHANGED <<ctlVars, flagVars, monVars, timeVars, trackVars, envVars,
                 timer, next_in, interval, attempt, raising, calls, metrics>>

\* time.sleep(next_request_time - current_time) has returned, or was not
\* needed; next_request_time = time.time() + interval; the worker fires
QpsWaitDone(w) ==
  /\ pc[w] = "qps_wait"
  /\ timer[w] = 0
  /\ next_in' = [next_in EXCEPT ![w] = interval[w]]
  /\ pc' = [pc EXCEPT ![w] = "call"]
  /\ UNCHANGED <<ctlVars, flagVars, monVars, timeVars, trackVars, envVars,
                 timer, interval, attempt, raising, calls, metrics>>

\* the first statement of _execute_query_async: skip if shutdown initiated
skip_if_shutdown(stop_is_set) == stop_is_set

CallCheck(w) ==
  /\ pc[w] = "call"
  /\ IF skip_if_shutdown(stop_event)
       THEN pc' = [pc EXCEPT ![w] = "loop"]
       ELSE /\ calls < MaxCalls
            /\ pc' = [pc EXCEPT ![w] = "begin"]
  /\ UNCHANGED <<ctlVars, flagVars, monVars, timeVars, trackVars, envVars,
                 timer, next_in, interval, attempt, raising, calls, metrics>>

\* monitor.start_request, then the call of _execute_query
Begin(w) ==
  /\ pc[w] = "begin"
  /\ start_request(Name(w))
  /\ calls' = calls + 1
  /\ attempt' = [attempt EXCEPT ![w] = calls + 1]
  /\ pc' = [pc EXCEPT ![w] = "exec"]
  /\ UNCHANGED <<ctlVars, flagVars, monVars, timeVars, envVars,
                 timer, next_in, interval, raising, metrics>>

\* _execute_query returns: metrics.record(duration_ms, True, name)
ExecSuccess(w) ==
  /\ pc[w] = "exec"
  /\ metrics' = record(metrics, TRUE, Name(w), attempt[w])
  /\ pc' = [pc EXCEPT ![w] = "tel_ok"]
  /\ UNCHANGED <<ctlVars, flagVars, monVars, timeVars, trackVars, envVars,
                 timer, next_in, interval, attempt, raising, calls>>

\* _execute_query raises: the except clause is entered
ExecRaise(w) ==
  /\ pc[w] = "exec"
  /\ raising' = [raising EXCEPT ![w] = TRUE]
  /\ pc' = [pc EXCEPT ![w] = "err_check"]
  /\ UNCHANGED <<ctlVars, flagVars, monVars, timeVars, trackVars, envVars,
                 timer, next_in, interval, attempt, calls, metrics>>

\* _execute_query never returns
ExecHang(w) ==
  /\ pc[w] \in {"exec", "w_exec"}
  /\ pc' = [pc EXCEPT ![w] = "hung"]
  /\ UNCHANGED <<ctlVars, flagVars, monVars, timeVars, trackVars, envVars,
                 timer, next_in, interval, attempt, raising, calls, metrics>>

\* after the record of a success: monitor.record_request, wal_logger.log and
\* export_query_metrics (which catches its own errors), all inside the try
TelemetryOk(w) ==
  /\ pc[w] = "tel_ok"
  /\ IF WalRaises
       THEN /\ raising' = [raising EXCEPT ![w] = TRUE]
            /\ pc' = [pc EXCEPT ![w] = "err_check"]
       ELSE /\ pc' = [pc EXCEPT ![w] = "finally"]
            /\ UNCHANGED raising
  /\ UNCHANGED <<ctlVars, flagVars, monVars, timeVars, trackVars, envVars,
                 timer, next_in, interval, attempt, calls, metrics>>

\* mutant: the except clause records whatever the stop flag
record_error_always(stop_is_set) == TRUE

\* the condition of the except clause: if not self._stop_event.is_set()
record_error(stop_is_set) == ~stop_is_set

ErrCheck(w) ==
  /\ pc[w] = "err_check"
  /\ IF record_error(stop_event)
       THEN /\ pc' = [pc EXCEPT ![w] = "err_rec"]
            /\ UNCHANGED raising
       ELSE /\ pc' = [pc EXCEPT ![w] = "finally"]
            /\ raising' = [raising EXCEPT ![w] = FALSE]
  /\ UNCHANGED <<ctlVars, flagVars, monVars, timeVars, trackVars, envVars,
                 timer, next_in, interval, attempt, calls, metrics>>

\* metrics.record(duration_ms, False, name, str(e)), monitor.record_request,
\* wal_logger.log (an error of it leaves the except clause), export
ErrRecord(w) ==
  /\ pc[w] = "err_rec"
  /\ metrics' = record(metrics, FALSE, Name(w), attempt[w])
  /\ raising' = [raising EXCEPT ![w] = WalRaises]
  /\ pc' = [pc EXCEPT ![w] = "finally"]
  /\ UNCHANGED <<ctlVars, flagVars, monVars, timeVars, trackVars, envVars,
                 timer, next_in, interval, attempt, calls>>

\* finally: monitor.end_request; an exception in flight ends the worker
Finally(w) ==
  /\ pc[w] = "finally"
  /\ end_request(Name(w))
  /\ pc' = [pc EXCEPT ![w] =
       IF raising[w] THEN "crashed"
       ELSE IF w.kind = "main" THEN "loop" ELSE "w_loop"]
  /\ raising' = [raising EXCEPT ![w] = FALSE]
  /\ attempt' = [attempt EXCEPT ![w] = 0]
  /\ next_in' = [next_in EXCEPT ![w] = IF raising[w] THEN 0 ELSE @]
  /\ UNCHANGED <<ctlVars, flagVars, monVars, timeVars, envVars,
                 timer, interval, calls, metrics>>

\* the worker loop was left: _query_worker logs WORKER_END
WorkerEnd(w) ==
  /\ pc[w] = "end"
  /\ pc' = [pc EXCEPT ![w] = IF WalRaises THEN "crashed" ELSE "done"]
  /\ next_in' = [next_in EXCEPT ![w] = 0]
  /\ UNCHANGED <<ctlVars, flagVars, monVars, timeVars, trackVars, envVars,
                 timer, interval, attempt, raising, calls, metrics>>

\* ---------------------------------------------------------- warmup workers
\* line 405, the read: getattr(self, '_warmup_stop_event', threading.Event())
WarmGetattr(w) ==
  /\ pc[w] = "w_getattr"
  /\ pc' = [pc EXCEPT ![w] =
       IF warmup_stop_event = "set" THEN "w_assign_set" ELSE "w_assign_clear"]
  /\ UNCHANGED <<ctlVars, flagVars, monVars, timeVars, trackVars, envVars,
                 timer, next_in, interval, attempt, raising, calls, metrics>>

\* line 405, the write: self._warmup_stop_event = <the event read>
WarmAssign(w) ==
  /\ pc[w] \in {"w_assign_set", "w_assign_clear"}
  /\ warmup_stop_event' = IF pc[w] = "w_assign_set" THEN "set" ELSE "clear"
  /\ pc' = [pc EXCEPT ![w] = "w_loop"]
  /\ UNCHANGED <<ctlVars, stop_event, monVars, timeVars, trackVars, envVars,
                 timer, next_in, interval, attempt, raising, calls, metrics>>

\* the while condition of _warmup_worker, then monitor.start_request and the
\* call of _execute_query
WarmLoop(w) ==
  /\ pc[w] = "w_loop"
  /\ IF warmup_stop_event = "set" \/ stop_event
       THEN /\ pc' = [pc EXCEPT ![w] = "done"]
            /\ UNCHANGED <<trackVars, calls, attempt>>
       ELSE /\ calls < MaxCalls
            /\ start_request(Name(w))
            /\ calls' = calls + 1
            /\ attempt' = [attempt EXCEPT ![w] = calls + 1]
            /\ pc' = [pc EXCEPT ![w] = "w_exec"]
  /\ UNCHANGED <<ctlVars, flagVars, monVars, timeVars, envVars,
                 timer, next_in, interval, raising, metrics>>

\* mutant: a warmup execution is recorded like a main one
warmup_record_into_main(m, success, query_name, att) ==
  record(m, success, query_name, att)

\* what a finished warmup execution does to the main metrics collector:
\* nothing ("Don't record warmup metrics in main metrics collector")
warmup_record(m, success, query_name, att) == m

\* _execute_query returns in the warmup worker: WARMUP_SUCCESS is logged; if
\* that raises, the except clause logs WARMUP_ERROR unless stopped
WarmExecSuccess(w) ==
  /\ pc[w] = "w_exec"
  /\ metrics' = warmup_record(metrics, TRUE, Name(w), attempt[w])
  /\ raising' = [raising EXCEPT ![w] = WalRaises /\ ~stop_event]
  /\ pc' = [pc EXCEPT ![w] = "finally"]
  /\ UNCHANGED <<ctlVars, flagVars, monVars, timeVars, trackVars, envVars,
                 timer, next_in, interval, attempt, calls>>

\* _execute_query raises in the warmup worker
WarmExecRaise(w) ==
  /\ pc[w] = "w_exec"
  /\ metrics' = warmup_record(metrics, FALSE, Name(w), attempt[w])
  /\ raising' = [raising EXCEPT ![w] = WalRaises /\ ~stop_event]
  /\ pc' = [pc EXCEPT ![w] = "finally"]
  /\ UNCHANGED <<ctlVars, flagVars, monVars, timeVars, trackVars, envVars,
                 timer, next_in, interval, attempt, calls>>

\* ------------------------------------------------------------- environment
\* a rate worker between the assignment of next_request_time and the end of
\* its loop: the local variable next_request_time is live
HasSchedule(w) ==
  /\ w.kind = "main"
  /\ pc[w] \in {"loop", "qps_sleep", "qps_wait", "call", "begin", "exec",
                "tel_ok", "err_check", "err_rec", "finally"}
  /\ QC(w).load_mode = "qps"

\* one second passes
Tick ==
  /\ elapsed' = Min(elapsed + 1, ElapsedCap)
  /\ warm_left' = Max(0, warm_left - 1)
  /\ main_left' = Max(0, main_left - 1)
  /\ timer' = [w \in Workers |-> Max(0, timer[w] - 1)]
  /\ next_in' = [w \in Workers |->
       IF HasSchedule(w) THEN Max(0 - MaxLate, next_in[w] - 1) ELSE next_in[w]]
  /\ UNCHANGED <<ctlVars, flagVars, monVars, trackVars, envVars,
                 pc, interval, attempt, raising, calls, metrics>>

\* the log directory stops or starts being writable
WalFaultChange ==
  /\ fault_changes < MaxFaultChanges
  /\ wal_fault' = ~wal_fault
  /\ fault_changes' = fault_changes + 1
  /\ UNCHANGED <<mon, obs, thr, call, coll, cc, ctlVars, flagVars, monVars, timeVars, trackVars,
                 pc, timer, next_in, interval, attempt, raising, calls, metrics>>

\* --------------------------------------------------------- cluster monitor
\* the pause callback LoadTester registers: it logs, and returns _load_paused
_log_cluster_high(paused) == paused
\* the resume callback LoadTester registers
_log_cluster_normal(paused) == paused

\* mutant: the monitor resumes as soon as the sample is not above threshold
monitor_transition_no_band(paused, sample, threshold, margin) ==
  IF sample > threshold /\ ~paused THEN TRUE
  ELSE IF sample <= threshold /\ paused THEN FALSE
  ELSE paused

\* the if / elif of _monitor_loop of CPUMonitor and of ClusterMonitor (whose
\* high_cpu_nodes is not empty exactly if max_cpu > cpu_threshold)
monitor_transition(paused, sample, threshold, margin) ==
  IF sample > threshold /\ ~paused THEN TRUE
  ELSE IF sample <= threshold - margin /\ paused THEN FALSE
  ELSE paused

\* the transition of ClusterMonitor._monitor_loop for one sample
next_is_paused(paused, max_cpu) ==
  monitor_transition(paused, max_cpu, cpu_threshold, cluster_hysteresis)

\* one iteration of ClusterMonitor._monitor_loop; a probe that raises is
\* caught and changes nothing
MonitorPoll ==
  /\ cluster_running
  /\ \/ UNCHANGED <<is_paused, load_paused>>
     \/ \E max_cpu \in CpuSamples :
          /\ is_paused' = next_is_paused(is_paused, max_cpu)
          /\ load_paused' =
               IF is_paused' = is_paused THEN load_paused
               ELSE IF is_paused' THEN _log_cluster_high(load_paused)
               ELSE _log_cluster_normal(load_paused)
  /\ UNCHANGED <<execution_log, config, ctl, join_i, shutdown_initiated, results, flagVars,
                 cluster_running, timeVars, trackVars, envVars,
                 pc, timer, next_in, interval, attempt, raising, calls, metrics>>

\* ---------------------------------------------------------------- run_test
\* mutant: the clock of the schedules runs on from the start of run_test
test_start_time_kept(el) == el

\* self.test_start_time = time.time(): what elapsed is right after it
test_start_time_reset(el) == 0

WorkerVars == <<pc, timer, next_in, interval, attempt, raising, calls, metrics>>

\* positions of run_test inside the with ThreadPoolExecutor block
InsideWith == {"warmup_submit", "warmup_wait", "warmup_stop", "warmup_join",
               "warmup_end", "submit_main", "main_check", "main_sleep",
               "post_loop", "join_main"}

RECURSIVE FuturesFrom(_, _)
\* the futures list of run_test: for each query, worker_id 0..workers_needed-1
FuturesFrom(q, k) ==
  IF q > Len(config.queries) THEN <<>>
  ELSE IF k >= workers_needed(config.queries[q]) THEN FuturesFrom(q + 1, 0)
  ELSE <<Worker("main", q, k)>> \o FuturesFrom(q, k + 1)

futures == FuturesFrom(1, 0)
warmup_futures == [q \in 1..Len(config.queries) |-> Worker("warmup", q, 0)]

\* get_summary of MetricsCollector: the overall counts
get_summary(m) ==
  [total |-> Len(m),
   success |-> Cardinality({i \in 1..Len(m) : m[i].success}),
   errors |-> Len(m) - Cardinality({i \in 1..Len(m) : m[i].success})]

\* the connectivity check fails: the degenerate result is returned
RunTestNoConnection ==
  /\ ctl = "idle"
  /\ results' = [total |-> 0, success |-> 0, errors |-> 1]
  /\ ctl' = "returned"
  /\ UNCHANGED <<execution_log, config, join_i, shutdown_initiated, load_paused, flagVars,
                 monVars, timeVars, trackVars, envVars, WorkerVars>>

\* lines 127-140: START is logged, the monitors start, test_start_time is set
RunTestStart ==
  /\ ctl = "idle"
  /\ IF WalRaises
       THEN /\ ctl' = "raised"
            /\ UNCHANGED <<execution_log, cluster_running, elapsed>>
       ELSE /\ execution_log' = Append(execution_log, "START")
            /\ cluster_running' = TRUE
            /\ elapsed' = test_start_time_reset(elapsed)
            /\ ctl' = IF config.warmup_enabled THEN "warmup_submit" ELSE "submit_main"
  /\ UNCHANGED <<config, join_i, shutdown_initiated, load_paused, results,
                 flagVars, is_paused, warm_left, main_left, trackVars,
                 envVars, WorkerVars>>

\* _run_warmup_phase up to warmup_start: WARMUP_START is logged and one
\* warmup worker per query is submitted
WarmupSubmit ==
  /\ ctl = "warmup_submit"
  /\ IF WalRaises
       THEN /\ ctl' = "abort_exit"
            /\ UNCHANGED <<execution_log, pc, warm_left>>
       ELSE /\ execution_log' = Append(execution_log, "WARMUP_START")
            /\ pc' = [w \in Workers |->
                 IF w \in SubmittedWarmup THEN "submitted" ELSE pc[w]]
            /\ warm_left' = config.warmup_duration_seconds
            /\ ctl' = "warmup_wait"
  /\ UNCHANGED <<config, join_i, shutdown_initiated, load_paused, results,
                 flagVars, monVars, elapsed, main_left, trackVars, envVars,
                 timer, next_in, interval, attempt, raising, calls, metrics>>

\* the wait loop of _run_warmup_phase is left: the warmup duration is over
\* or the stop event is set
WarmupWait ==
  /\ ctl = "warmup_wait"
  /\ warm_left = 0 \/ stop_event
  /\ ctl' = "warmup_stop"
  /\ UNCHANGED <<execution_log, config, join_i, shutdown_initiated, load_paused, results,
                 flagVars, monVars, timeVars, trackVars, envVars, WorkerVars>>

\* lines 387-388: a new event is stored in _warmup_stop_event and set
WarmupStop ==
  /\ ctl = "warmup_stop"
  /\ warmup_stop_event' = "set"
  /\ join_i' = 1
  /\ ctl' = "warmup_join"
  /\ UNCHANGED <<execution_log, config, shutdown_initiated, load_paused, results, stop_event,
                 monVars, timeVars, trackVars, envVars, WorkerVars>>

\* a worker that is inside a call of the QueryExecutor, which takes up to
\* its 300 s timeout or for ever; only such a worker outlasts the 10 s and
\* 30 s that run_test waits for a future
Blocked(w) == pc[w] \in {"exec", "w_exec", "hung"}

\* future.result(timeout=10) of the next warmup future returns, raises the
\* worker's exception or times out; each is caught and the loop goes on
WarmupJoin ==
  /\ ctl = "warmup_join"
  /\ Finished(warmup_futures[join_i]) \/ Blocked(warmup_futures[join_i])
  /\ join_i' = join_i + 1
  /\ ctl' = IF join_i >= Len(warmup_futures) THEN "warmup_end" ELSE "warmup_join"
  /\ UNCHANGED <<execution_log, config, shutdown_initiated, load_paused, results, flagVars,
                 monVars, timeVars, trackVars, envVars, WorkerVars>>

\* WARMUP_END is logged and test_start_time is reset for the main phase
WarmupEnd ==
  /\ ctl = "warmup_end"
  /\ IF WalRaises
       THEN /\ ctl' = "abort_exit"
            /\ UNCHANGED <<execution_log, elapsed>>
       ELSE /\ execution_log' = Append(execution_log, "WARMUP_END")
            /\ elapsed' = test_start_time_reset(elapsed)
            /\ ctl' = "submit_main"
  /\ UNCHANGED <<config, join_i, shutdown_initiated, load_paused, results,
                 flagVars, monVars, warm_left, main_left, trackVars, envVars,
                 WorkerVars>>

\* lines 147-163: the workers of every query are submitted; start_time
SubmitMain ==
  /\ ctl = "submit_main"
  /\ pc' = [w \in Workers |-> IF w \in Submitted THEN "submitted" ELSE pc[w]]
  /\ main_left' = config.duration_seconds
  /\ ctl' = "main_check"
  /\ UNCHANGED <<execution_log, config, join_i, shutdown_initiated, load_paused, results,
                 flagVars, monVars, elapsed, warm_left, trackVars, envVars,
                 timer, next_in, interval, attempt, raising, calls, metrics>>

\* the condition of the wait loop of run_test
wait_goes_on(left, stop_is_set) == left > 0

\* while time.time() - start_time < self.config.duration_seconds
MainCheck ==
  /\ ctl = "main_check"
  /\ ctl' = IF wait_goes_on(main_left, stop_event) THEN "main_sleep" ELSE "post_loop"
  /\ UNCHANGED <<execution_log, config, join_i, shutdown_initiated, load_paused, results,
                 flagVars, monVars, timeVars, trackVars, envVars, WorkerVars>>

\* the body of the wait loop: export_node_stats, time.sleep(0.1)
MainSleep ==
  /\ ctl = "main_sleep"
  /\ ctl' = "main_check"
  /\ UNCHANGED <<execution_log, config, join_i, shutdown_initiated, load_paused, results,
                 flagVars, monVars, timeVars, trackVars, envVars, WorkerVars>>

\* lines 175-186: the stop event is set unless a signal did it; the final
\* export, whose errors are caught
PostLoop ==
  /\ ctl = "post_loop"
  /\ IF ~shutdown_initiated
       THEN /\ stop_event' = TRUE
            /\ cluster_running' = FALSE
       ELSE UNCHANGED <<stop_event, cluster_running>>
  /\ join_i' = 1
  /\ ctl' = IF Len(futures) = 0 THEN "pool_exit" ELSE "join_main"
  /\ UNCHANGED <<execution_log, config, shutdown_initiated, load_paused, results,
                 warmup_stop_event, is_paused, timeVars, trackVars,
                 envVars, WorkerVars>>

\* future.result(timeout=30) of the next future returns or raises the
\* worker's exception
JoinMainDone ==
  /\ ctl = "join_main"
  /\ Finished(futures[join_i])
  /\ join_i' = join_i + 1
  /\ ctl' = IF join_i >= Len(futures) THEN "pool_exit" ELSE "join_main"
  /\ UNCHANGED <<execution_log, config, shutdown_initiated, load_paused, results, flagVars,
                 monVars, timeVars, trackVars, envVars, WorkerVars>>

\* future.result(timeout=30) times out: the worker is left behind
JoinMainTimeout ==
  /\ ctl = "join_main"
  /\ Blocked(futures[join_i])
  /\ join_i' = join_i + 1
  /\ ctl' = IF join_i >= Len(futures) THEN "pool_exit" ELSE "join_main"
  /\ UNCHANGED <<execution_log, config, shutdown_initiated, load_paused, results, flagVars,
                 monVars, timeVars, trackVars, envVars, WorkerVars>>

\* mutant: the with block is left without waiting for the worker threads
pool_released_at_once == TRUE

\* what the end of the with block waits for: ThreadPoolExecutor.__exit__
\* calls shutdown(wait=True), which joins every worker thread
pool_released == \A w \in Workers : pc[w] \in {"none", "done", "crashed"}

\* the with block is left
PoolExit ==
  /\ ctl \in {"pool_exit", "abort_exit"}
  /\ pool_released
  /\ ctl' = IF ctl = "pool_exit" THEN "summary" ELSE "raised"
  /\ UNCHANGED <<execution_log, config, join_i, shutdown_initiated, load_paused, results,
                 flagVars, monVars, timeVars, trackVars, envVars, WorkerVars>>

\* status = "INTERRUPTED" if self._shutdown_initiated else "END"
status(shutdown) == IF shutdown THEN "INTERRUPTED" ELSE "END"

\* lines 196-203: get_summary, the END or INTERRUPTED log, return
Summary ==
  /\ ctl = "summary"
  /\ IF WalRaises
       THEN /\ ctl' = "raised"
            /\ UNCHANGED <<execution_log, results>>
       ELSE /\ results' = get_summary(metrics)
            /\ execution_log' = Append(execution_log, status(shutdown_initiated))
            /\ ctl' = "returned"
  /\ UNCHANGED <<config, join_i, shutdown_initiated, load_paused, flagVars,
                 monVars, timeVars, trackVars, envVars, WorkerVars>>

\* _signal_handler, run in the main thread between two steps of run_test; an
\* error of its wal_logger.log surfaces where the main thread is: caught by
\* the except clauses around future.result, else leaving run_test
_signal_handler ==
  /\ ctl \notin {"returned", "raised"}
  /\ ~shutdown_initiated
  /\ shutdown_initiated' = TRUE
  /\ stop_event' = TRUE
  /\ cluster_running' = FALSE
  /\ execution_log' =
       IF WalRaises THEN execution_log ELSE Append(execution_log, "INTERRUPTED")
  /\ IF ~WalRaises THEN UNCHANGED <<ctl, join_i>>
     ELSE IF ctl = "warmup_join"
       THEN /\ join_i' = join_i + 1
            /\ ctl' = IF join_i >= Len(warmup_futures) THEN "warmup_end" ELSE ctl
     ELSE IF ctl = "join_main"
       THEN /\ join_i' = join_i + 1
            /\ ctl' = IF join_i >= Len(futures) THEN "pool_exit" ELSE ctl
     ELSE /\ ctl' = IF ctl \in InsideWith THEN "abort_exit" ELSE "raised"
          /\ UNCHANGED join_i
  /\ UNCHANGED <<config, load_paused, results, warmup_stop_event, is_paused,
                 timeVars, trackVars, envVars, WorkerVars>>

\* -------------------------------------------------------------------- Next
WorkerStep(w) ==
  \/ WorkerStart(w)
  \/ QpsInit(w)
  \/ QpsDelayDone(w)
  \/ LoopCheck(w)
  \/ SleepDone(w)
  \/ QpsWaitDone(w)
  \/ CallCheck(w)
  \/ Begin(w)
  \/ ExecSuccess(w)
  \/ ExecRaise(w)
  \/ TelemetryOk(w)
  \/ ErrCheck(w)
  \/ ErrRecord(w)
  \/ Finally(w)
  \/ WorkerEnd(w)
  \/ WarmGetattr(w)
  \/ WarmAssign(w)
  \/ WarmLoop(w)
  \/ WarmExecSuccess(w)
  \/ WarmExecRaise(w)

ControllerStep ==
  \/ RunTestNoConnection
  \/ RunTestStart
  \/ WarmupSubmit
  \/ WarmupWait
  \/ WarmupStop
  \/ WarmupJoin
  \/ WarmupEnd
  \/ SubmitMain
  \/ MainCheck
  \/ MainSleep
  \/ PostLoop
  \/ JoinMainDone
  \/ JoinMainTimeout
  \/ PoolExit
  \/ Summary

Next ==
  \/ \E w \in Workers : WorkerStep(w)
  \/ \E w \in Workers : ExecHang(w)
  \/ ControllerStep
  \/ _signal_handler
  \/ MonitorPoll
  \/ Tick
  \/ WalFaultChange

Spec == Init /\ [][Next]_vars

\* the scheduler runs every thread that can run, and time passes; a call of
\* the QueryExecutor returns or raises unless it hangs
FairSpec ==
  /\ Spec
  /\ WF_vars(ControllerStep)
  /\ WF_vars(Tick)
  /\ \A w \in Workers : WF_vars(WorkerStep(w))

\* ------------------------------------------------- a fault-free environment
\* the run of LoadTester where the log directory stays writable, no call of
\* the QueryExecutor hangs and the cluster monitor reads nothing; the plans
\* include a concurrency ramp with two workers
LoadInit ==
  /\ RunInit(Plans \cup RampPlans)
  /\ mon = MonitorNew("cluster", TRUE)
  /\ obs = TrackerNew
  /\ UnitsIdle

LoadNext ==
  \/ \E w \in Workers : WorkerStep(w)
  \/ ControllerStep
  \/ _signal_handler
  \/ Tick

LoadSpec == LoadInit /\ [][LoadNext]_vars

\* --------------------------------------- CPUMonitor / ClusterMonitor alone
runVars == <<config, ctl, execution_log, join_i, stop_event, shutdown_initiated, load_paused,
             warmup_stop_event, is_paused, cluster_running, elapsed,
             warm_left, main_left, pc, timer, next_in, interval, attempt,
             raising, calls, metrics, wal_fault, fault_changes, results>>

\* self.threshold / self.cpu_threshold of the monitor, and its margin
threshold_of(kind) == IF kind = "cpu" THEN cpu_monitor_threshold ELSE cpu_threshold
margin_of(kind) == IF kind = "cpu" THEN cpu_hysteresis ELSE cluster_hysteresis

\* what a probe can read: the values around both ends of the dead band
HealthSamples(kind) ==
  LET t == threshold_of(kind)
      m == margin_of(kind)
  IN {t - m - 1, t - m, t - m + 1, t, t + 1}

\* mutant: the callbacks follow the level of the flag, not its edges
invoke_callbacks_by_level(log, before, after, registered) ==
  IF registered THEN Append(log, IF after THEN "pause" ELSE "resume") ELSE log

\* the callback calls inside the two branches that change is_paused:
\* if self.pause_callback: ... / if self.resume_callback: ...
invoke_callbacks(log, before, after, registered) ==
  IF registered /\ before # after
    THEN Append(log, IF after THEN "pause" ELSE "resume")
    ELSE log

\* mutant: an error of the probe ends the monitor thread
probe_raised_and_left(m) ==
  [m EXCEPT !.probe = "error", !.polls = @ + 1, !.thread = "ended"]

\* except Exception: print, time.sleep(check_interval), next iteration
probe_raised(m) ==
  [m EXCEPT !.probe = "error", !.polls = @ + 1, !.thread = "loop"]

start_monitoring ==
  /\ mon.thread \in {"none", "ended"}
  /\ mon' = [mon EXCEPT !.running = TRUE, !.thread = "loop"]
  /\ UNCHANGED <<runVars, trackVars, obs, unitVars>>

stop_monitoring ==
  /\ mon.running
  /\ mon' = [mon EXCEPT !.running = FALSE]
  /\ UNCHANGED <<runVars, trackVars, obs, unitVars>>

\* while self.running
MonitorLoopCheck ==
  /\ mon.thread = "loop"
  /\ mon.running => mon.polls < MaxPolls
  /\ mon' = [mon EXCEPT !.thread = IF mon.running THEN "body" ELSE "ended"]
  /\ UNCHANGED <<runVars, trackVars, obs, unitVars>>

\* the body of the loop when the probe returns a sample
MonitorSample ==
  /\ mon.thread = "body"
  /\ \E sample \in HealthSamples(mon.kind) :
       LET after == monitor_transition(mon.is_paused, sample,
                                       threshold_of(mon.kind), margin_of(mon.kind))
       IN mon' = [mon EXCEPT
                    !.is_paused = after,
                    !.callbacks = invoke_callbacks(@, mon.is_paused, after, mon.registered),
                    !.probe = "ok",
                    !.sample = sample,
                    !.polls = @ + 1,
                    !.thread = "loop"]
  /\ UNCHANGED <<runVars, trackVars, obs, unitVars>>

\* the body of the loop when the probe raises
MonitorProbeError ==
  /\ mon.thread = "body"
  /\ mon' = probe_raised(mon)
  /\ UNCHANGED <<runVars, trackVars, obs, unitVars>>

MonitorInit ==
  /\ RunInit({NoPlan})
  /\ mon \in {MonitorNew(kind, registered) :
                kind \in {"cpu", "cluster"}, registered \in BOOLEAN}
  /\ obs = TrackerNew
  /\ UnitsIdle

MonitorNext ==
  \/ start_monitoring
  \/ stop_monitoring
  \/ MonitorLoopCheck
  \/ MonitorSample
  \/ MonitorProbeError

MonitorSpec == MonitorInit /\ [][MonitorNext]_vars

\* ------------------------------------------- ObservabilityMonitor alone
\* what get_max_concurrency returns (and stores)
get_max_concurrency == Max(max_concurrency, SumOver(concurrent_requests, Names))

CallStartRequest ==
  /\ obs.starts < MaxRequests
  /\ \E n \in Names, g \in Groups :
       /\ start_request(n)
       /\ obs' = [obs EXCEPT
            !.starts = @ + 1,
            !.op = "start_request",
            !.phase = IF @ = "starts" THEN "starts" ELSE "mixed",
            !.group_concurrent_requests =
               IF g = "None" THEN @
               ELSE [h \in DOMAIN @ |-> IF h = g THEN @[h] + 1 ELSE @[h]]]
  /\ UNCHANGED <<runVars, mon, unitVars>>

CallEndRequest ==
  /\ obs.ends < MaxRequests
  /\ \E n \in Names, g \in Groups :
       /\ end_request(n)
       /\ obs' = [obs EXCEPT
            !.ends = @ + 1,
            !.op = "end_request",
            !.phase = IF @ \in {"starts", "ends"} /\ concurrent_requests[n] > 0
                      THEN "ends" ELSE "mixed",
            !.group_concurrent_requests =
               IF g = "None" THEN @
               ELSE [h \in DOMAIN @ |-> IF h = g THEN Max(0, @[h] - 1) ELSE @[h]]]
  /\ UNCHANGED <<runVars, mon, unitVars>>

CallGetMaxConcurrency ==
  /\ max_concurrency' = get_max_concurrency
  /\ obs' = [obs EXCEPT !.last_read = get_max_concurrency,
                        !.op = "get_max_concurrency"]
  /\ UNCHANGED <<concurrent_requests, per_query_max_concurrency, runVars, mon,
                 unitVars>>

\* get_query_max_concurrency(query_name): a read of the per-query maximum
CallGetQueryMaxConcurrency ==
  /\ obs.op # "get_query_max_concurrency"
  /\ \E query_name \in Names :
       obs' = [obs EXCEPT !.op = "get_query_max_concurrency"]
  /\ UNCHANGED <<trackVars, runVars, mon, unitVars>>

TrackerInit ==
  /\ RunInit({NoPlan})
  /\ mon = MonitorNew("cluster", TRUE)
  /\ obs = TrackerNew
  /\ UnitsIdle

TrackerNext ==
  \/ CallStartRequest
  \/ CallEndRequest
  \/ CallGetMaxConcurrency
  \/ CallGetQueryMaxConcurrency

TrackerSpec == TrackerInit /\ [][TrackerNext]_vars

\* --------------------------- threads sharing one ObservabilityMonitor
\* mutant: the with statement lets a thread in while another holds the lock
lock_free_always(l) == TRUE

\* with self.lock: a thread enters when no thread holds the lock
lock_free(l) == l = NoThread

ThreadFrame == UNCHANGED <<runVars, mon, call, coll, cc>>
\* a step of thread t inside a call: its position and its local value
ThreadAt(t, position, value) ==
  thr' = [thr EXCEPT !.pc[t] = position, !.tmp[t] = value]
InFlightThreads(position) == {t \in Threads : position[t] = "in_flight"}

\* a worker calls start_request(query_name, query_group)
ThreadStartRequest(t) ==
  /\ thr.pc[t] = "idle"
  /\ thr.rounds[t] < MaxRounds
  /\ \E n \in SharedNames, g \in Groups :
       thr' = [thr EXCEPT !.pc[t] = "s33", !.query_name[t] = n,
                          !.query_group[t] = g]
  /\ UNCHANGED <<trackVars, obs>>
  /\ ThreadFrame

\* the worker's request has come back: it calls end_request with the same
\* query_name and query_group
ThreadEndRequest(t) ==
  /\ thr.pc[t] = "in_flight"
  /\ thr' = [thr EXCEPT !.pc[t] = "e48"]
  /\ UNCHANGED <<trackVars, obs>>
  /\ ThreadFrame

\* with self.lock: of start_request and of end_request
LockAcquire(t) ==
  /\ thr.pc[t] \in {"s33", "e48"}
  /\ lock_free(thr.lock)
  /\ thr' = [thr EXCEPT !.lock = t,
                        !.pc[t] = IF thr.pc[t] = "s33" THEN "s34" ELSE "e49"]
  /\ UNCHANGED <<trackVars, obs>>
  /\ ThreadFrame

\* self.concurrent_requests[query_name] += 1: the read
StartLoadCount(t) ==
  /\ thr.pc[t] = "s34"
  /\ ThreadAt(t, "s34w", concurrent_requests[thr.query_name[t]])
  /\ UNCHANGED <<trackVars, obs>>
  /\ ThreadFrame

\* self.concurrent_requests[query_name] += 1: the write
StartStoreCount(t) ==
  /\ thr.pc[t] = "s34w"
  /\ concurrent_requests' =
       [concurrent_requests EXCEPT ![thr.query_name[t]] = thr.tmp[t] + 1]
  /\ ThreadAt(t, IF thr.query_group[t] = "None" THEN "s38" ELSE "s36", 0)
  /\ UNCHANGED <<max_concurrency, per_query_max_concurrency, obs>>
  /\ ThreadFrame

\* self.group_concurrent_requests[query_group] += 1: the read
StartLoadGroup(t) ==
  /\ thr.pc[t] = "s36"
  /\ ThreadAt(t, "s36w", obs.group_concurrent_requests[thr.query_group[t]])
  /\ UNCHANGED <<trackVars, obs>>
  /\ ThreadFrame

\* self.group_concurrent_requests[query_group] += 1: the write
StartStoreGroup(t) ==
  /\ thr.pc[t] = "s36w"
  /\ obs' = [obs EXCEPT
       !.group_concurrent_requests[thr.query_group[t]] = thr.tmp[t] + 1]
  /\ ThreadAt(t, "s38", 0)
  /\ UNCHANGED trackVars
  /\ ThreadFrame

\* total_concurrent = sum(self.concurrent_requests.values())
StartReadTotal(t) ==
  /\ thr.pc[t] = "s38"
  /\ ThreadAt(t, "s39", SumOver(concurrent_requests, Names))
  /\ UNCHANGED <<trackVars, obs>>
  /\ ThreadFrame

\* self.max_concurrency = max(self.max_concurrency, total_concurrent)
StartStoreMax(t) ==
  /\ thr.pc[t] = "s39"
  /\ max_concurrency' = Max(max_concurrency, thr.tmp[t])
  /\ ThreadAt(t, "s41", 0)
  /\ UNCHANGED <<concurrent_requests, per_query_max_concurrency, obs>>
  /\ ThreadFrame

\* the per-query maximum is brought up to the count of the query
StartStoreQueryMax(t) ==
  /\ thr.pc[t] = "s41"
  /\ per_query_max_concurrency' =
       [per_query_max_concurrency EXCEPT ![thr.query_name[t]] =
          Max(@, concurrent_requests[thr.query_name[t]])]
  /\ ThreadAt(t, "s45", 0)
  /\ UNCHANGED <<concurrent_requests, max_concurrency, obs>>
  /\ ThreadFrame

\* start_request leaves the with block and returns: the request is in flight
StartRelease(t) ==
  /\ thr.pc[t] = "s45"
  /\ LET position == [thr.pc EXCEPT ![t] = "in_flight"] IN
       thr' = [thr EXCEPT
         !.lock = NoThread,
         !.pc = position,
         !.begun[thr.query_name[t]] = @ + 1,
         !.peak = Max(@, Cardinality(InFlightThreads(position)))]
  /\ UNCHANGED <<trackVars, obs>>
  /\ ThreadFrame

\* self.concurrent_requests[query_name] = max(0, ... - 1): the read
EndLoadCount(t) ==
  /\ thr.pc[t] = "e49"
  /\ ThreadAt(t, "e49w", concurrent_requests[thr.query_name[t]])
  /\ UNCHANGED <<trackVars, obs>>
  /\ ThreadFrame

\* self.concurrent_requests[query_name] = max(0, ... - 1): the write
EndStoreCount(t) ==
  /\ thr.pc[t] = "e49w"
  /\ concurrent_requests' =
       [concurrent_requests EXCEPT ![thr.query_name[t]] = Max(0, thr.tmp[t] - 1)]
  /\ ThreadAt(t, IF thr.query_group[t] = "None" THEN "e52" ELSE "e51", 0)
  /\ UNCHANGED <<max_concurrency, per_query_max_concurrency, obs>>
  /\ ThreadFrame

\* self.group_concurrent_requests[query_group] = max(0, ... - 1): the read
EndLoadGroup(t) ==
  /\ thr.pc[t] = "e51"
  /\ ThreadAt(t, "e51w", obs.group_concurrent_requests[thr.query_group[t]])
  /\ UNCHANGED <<trackVars, obs>>
  /\ ThreadFrame

\* self.group_concurrent_requests[query_group] = max(0, ... - 1): the write
EndStoreGroup(t) ==
  /\ thr.pc[t] = "e51w"
  /\ obs' = [obs EXCEPT
       !.group_concurrent_requests[thr.query_group[t]] = Max(0, thr.tmp[t] - 1)]
  /\ ThreadAt(t, "e52", 0)
  /\ UNCHANGED trackVars
  /\ ThreadFrame

\* end_request leaves the with block and returns
EndRelease(t) ==
  /\ thr.pc[t] = "e52"
  /\ thr' = [thr EXCEPT
       !.lock = NoThread,
       !.pc[t] = "idle",
       !.rounds[t] = @ + 1,
       !.ended[thr.query_name[t]] = @ + 1]
  /\ UNCHANGED <<trackVars, obs>>
  /\ ThreadFrame

LockInit ==
  /\ RunInit({NoPlan})
  /\ mon = MonitorNew("cluster", TRUE)
  /\ obs = TrackerNew
  /\ UnitsIdle

LockNext ==
  \E t \in Threads :
    \/ ThreadStartRequest(t)
    \/ ThreadEndRequest(t)
    \/ LockAcquire(t)
    \/ StartLoadCount(t)
    \/ StartStoreCount(t)
    \/ StartLoadGroup(t)
    \/ StartStoreGroup(t)
    \/ StartReadTotal(t)
    \/ StartStoreMax(t)
    \/ StartStoreQueryMax(t)
    \/ StartRelease(t)
    \/ EndLoadCount(t)
    \/ EndStoreCount(t)
    \/ EndLoadGroup(t)
    \/ EndStoreGroup(t)
    \/ EndRelease(t)

LockSpec == LockInit /\ [][LockNext]_vars

\* ------------------------------------------------------- Python floats
\* A float is an IEEE 754 binary64: a sign and a magnitude that has at most
\* SignificandBits significant bits. A magnitude is written as Limbs digits
\* of LimbBits bits each, most significant first, the first digit before the
\* point and the others after it, which holds every float between 2^-12 and
\* 2^13 exactly.
SignificandBits == 53
LimbBits == 13
Limbs == 6
FixedBits == Limbs * LimbBits

RECURSIVE Pow2(_)
Pow2(k) == IF k = 0 THEN 1 ELSE 2 * Pow2(k - 1)
Base == Pow2(LimbBits)

\* bit k of a magnitude, k = 1 the most significant
Bit(m, k) ==
  (m[(k - 1) \div LimbBits + 1] \div Pow2(LimbBits - 1 - ((k - 1) % LimbBits))) % 2

\* float(n) of an int 0 <= n < 2^LimbBits
MagnitudeOfInt(n) == [j \in 1..Limbs |-> IF j = 1 THEN n ELSE 0]

RECURSIVE PlusFrom(_, _, _, _)
\* the digits 1..j of a + b, given the carry into digit j
PlusFrom(a, b, j, carry) ==
  IF j = 0 THEN <<>>
  ELSE PlusFrom(a, b, j - 1, (a[j] + b[j] + carry) \div Base)
         \o <<(a[j] + b[j] + carry) % Base>>

RECURSIVE MinusFrom(_, _, _, _)
\* the digits 1..j of a - b for a >= b, given the borrow from digit j
MinusFrom(a, b, j, borrow) ==
  IF j = 0 THEN <<>>
  ELSE MinusFrom(a, b, j - 1, IF a[j] - b[j] - borrow < 0 THEN 1 ELSE 0)
         \o <<(a[j] - b[j] - borrow + Base) % Base>>

RECURSIVE TimesFrom(_, _, _, _)
\* the digits 1..j of i times the magnitude a, given the carry into digit j
TimesFrom(a, i, j, carry) ==
  IF j = 0 THEN <<>>
  ELSE TimesFrom(a, i, j - 1, (a[j] * i + carry) \div Base)
         \o <<(a[j] * i + carry) % Base>>

RECURSIVE QuotientFrom(_, _, _)
\* long division: the next j digits of r / d for a remainder r < d
QuotientFrom(r, d, j) ==
  IF j = 0 THEN <<>>
  ELSE <<(r * Base) \div d>> \o QuotientFrom((r * Base) % d, d, j - 1)

RECURSIVE RemainderAfter(_, _, _)
RemainderAfter(r, d, j) ==
  IF j = 0 THEN r ELSE RemainderAfter((r * Base) % d, d, j - 1)

AtLeast(a, b) ==
  LET differ == {j \in 1..Limbs : a[j] # b[j]}
  IN differ = {} \/
       LET first == CHOOSE j \in differ : \A i \in differ : j <= i
       IN a[first] > b[first]

\* round to nearest, ties to even: the exact magnitude m (with more below
\* its last bit when sticky) becomes the nearest magnitude a float holds
RoundToFloat(m, sticky) ==
  LET ones == {k \in 1..FixedBits : Bit(m, k) = 1}
      lead == IF ones = {} THEN 0 ELSE CHOOSE k \in ones : \A j \in ones : k <= j
      cut == lead + SignificandBits - 1
  IN IF lead = 0 \/ cut >= FixedBits THEN m
     ELSE LET kept == [j \in 1..Limbs |->
                         LET drop == Min(LimbBits, Max(0, j * LimbBits - cut))
                         IN (m[j] \div Pow2(drop)) * Pow2(drop)]
              unit == [j \in 1..Limbs |->
                         IF j = (cut - 1) \div LimbBits + 1
                           THEN Pow2(LimbBits - 1 - ((cut - 1) % LimbBits)) ELSE 0]
              rest == sticky \/ \E k \in (cut + 2)..FixedBits : Bit(m, k) = 1
          IN IF Bit(m, cut + 1) = 1 /\ (rest \/ Bit(m, cut) = 1)
               THEN PlusFrom(kept, unit, Limbs, 0)
               ELSE kept

\* a / b of two ints with b > 0: true division, correctly rounded
true_divide(a, b) ==
  LET n == IF a < 0 THEN 0 - a ELSE a
  IN [neg |-> a < 0,
      mag |-> RoundToFloat(<<n \div b>> \o QuotientFrom(n % b, b, Limbs - 1),
                           RemainderAfter(n % b, b, Limbs - 1) # 0)]

\* i * x of an int i >= 0 and a float x
float_times(i, x) ==
  [neg |-> x.neg, mag |-> RoundToFloat(TimesFrom(x.mag, i, Limbs, 0), FALSE)]

\* n + x of an int n >= 0 and a float x
float_plus(n, x) ==
  LET a == MagnitudeOfInt(n) IN
  IF ~x.neg THEN [neg |-> FALSE,
                  mag |-> RoundToFloat(PlusFrom(a, x.mag, Limbs, 0), FALSE)]
  ELSE IF AtLeast(a, x.mag)
    THEN [neg |-> FALSE, mag |-> RoundToFloat(MinusFrom(a, x.mag, Limbs, 0), FALSE)]
    ELSE [neg |-> TRUE, mag |-> RoundToFloat(MinusFrom(x.mag, a, Limbs, 0), FALSE)]

\* int(x): the float is truncated towards zero
int(x) == IF x.neg THEN 0 - x.mag[1] ELSE x.mag[1]

\* ------------------------------------------------------------ RampBuilder
\* RampBuilder.linear_concurrency_ramp
linear_concurrency_ramp(start, end, steps, step_duration) ==
  IF steps <= 1 THEN <<Ramp(end, step_duration)>>
  ELSE LET step_size == true_divide(end - start, steps - 1)
       IN [k \in 1..steps |->
             Ramp(int(float_plus(start, float_times(k - 1, step_size))),
                  step_duration)]

\* mutant: the powers of two go on for one step more
power_of_2_concurrency_late(i) ==
  IF i < 8 THEN Pow2(i) ELSE 100 + (i - 7) * 50

\* the concurrency of step i of power_of_2_concurrency_ramp
power_of_2_concurrency(i) ==
  IF i < 7 THEN Pow2(i) ELSE 100 + (i - 7) * 50

\* RampBuilder.power_of_2_concurrency_ramp
power_of_2_concurrency_ramp(steps, step_duration) ==
  IF steps <= 1 THEN <<Ramp(1, step_duration)>>
  ELSE [k \in 1..steps |-> Ramp(power_of_2_concurrency(k - 1), step_duration)]

\* ------------------------------------- schedule lookups and RampBuilder
\* values and durations of the steps of the schedules that are looked up
ScheduleValues == {0, 1, 2}
ScheduleDurations == {0, 1, 2}
ScheduleSteps == {Ramp(v, d) : v \in ScheduleValues, d \in ScheduleDurations}
Schedules ==
  UNION {[1..len -> ScheduleSteps] : len \in 1..MaxScheduleLen}

\* the calls of the lookups: a ramp target and time.time() - test_start_time
LookupCalls ==
  {[op |-> op, schedule |-> schedule, elapsed |-> el, done |-> FALSE, result |-> 0] :
     op \in {"_get_current_concurrency", "_get_current_qps"},
     schedule \in Schedules, el \in 0..MaxElapsed}

\* the arguments the builders are called with
RampStarts == {0, 1, 8}
RampEnds == {0, 1, 5}
StepCounts == (0 - 1)..MaxSteps
StepDurations == {1, 2}

\* the calls of the builders; raised is the exception a call ended with
LinearCalls ==
  {[op |-> "linear_concurrency_ramp", start |-> start, end |-> end,
    steps |-> steps, step_duration |-> d, done |-> FALSE, raised |-> "none",
    result |-> <<>>] :
     start \in RampStarts, end \in RampEnds, steps \in StepCounts,
     d \in StepDurations}
PowerOf2Calls ==
  {[op |-> "power_of_2_concurrency_ramp", steps |-> steps, step_duration |-> d,
    done |-> FALSE, raised |-> "none", result |-> <<>>] :
     steps \in StepCounts, d \in StepDurations}

\* the arguments LoadTestConfig is constructed with: the number of queries
\* and duration_seconds
QueryCounts == 0..MaxQueries
ConfigDurations == {0 - 1, 0, 1}
ConfigCalls ==
  {[op |-> "LoadTestConfig", queries |-> n, duration_seconds |-> d,
    done |-> FALSE, raised |-> "none", result |-> <<>>] :
     n \in QueryCounts, d \in ConfigDurations}

\* LoadTestConfig(queries=..., duration_seconds=...): the __init__ that
\* @dataclass generates stores the fields; the class has no __post_init__
ApplyLoadTestConfig ==
  /\ call.op = "LoadTestConfig"
  /\ ~call.done
  /\ call' = [call EXCEPT
       !.done = TRUE,
       !.raised = "none",
       !.result = LoadTestConfig(
                    [q \in 1..call.queries |-> QueryConfig("qps", ConstTarget(1))],
                    call.duration_seconds, FALSE)]
  /\ UNCHANGED <<runVars, trackVars, mon, obs, thr, coll, cc>>

\* linear_concurrency_ramp(start, end, steps, step_duration): every path of
\* the method ends in a return
ApplyLinearConcurrencyRamp ==
  /\ call.op = "linear_concurrency_ramp"
  /\ ~call.done
  /\ call' = [call EXCEPT
       !.done = TRUE,
       !.raised = "none",
       !.result = linear_concurrency_ramp(call.start, call.end, call.steps,
                                          call.step_duration)]
  /\ UNCHANGED <<runVars, trackVars, mon, obs, thr, coll, cc>>

\* power_of_2_concurrency_ramp(steps, step_duration)
ApplyPowerOf2ConcurrencyRamp ==
  /\ call.op = "power_of_2_concurrency_ramp"
  /\ ~call.done
  /\ call' = [call EXCEPT
       !.done = TRUE,
       !.raised = "none",
       !.result = power_of_2_concurrency_ramp(call.steps, call.step_duration)]
  /\ UNCHANGED <<runVars, trackVars, mon, obs, thr, coll, cc>>

\* _get_current_concurrency(query_config) at call.elapsed
ApplyGetCurrentConcurrency ==
  /\ call.op = "_get_current_concurrency"
  /\ ~call.done
  /\ call' = [call EXCEPT
       !.done = TRUE,
       !.result = _get_current_concurrency(
                    QueryConfig("concurrency", RampTarget(call.schedule)),
                    call.elapsed)]
  /\ UNCHANGED <<runVars, trackVars, mon, obs, thr, coll, cc>>

\* _get_current_qps(query_config) at call.elapsed
ApplyGetCurrentQps ==
  /\ call.op = "_get_current_qps"
  /\ ~call.done
  /\ call' = [call EXCEPT
       !.done = TRUE,
       !.result = _get_current_qps(
                    QueryConfig("qps", RampTarget(call.schedule)), call.elapsed)]
  /\ UNCHANGED <<runVars, trackVars, mon, obs, thr, coll, cc>>

FunctionInit ==
  /\ RunInit({NoPlan})
  /\ mon = MonitorNew("cluster", TRUE)
  /\ obs = TrackerNew
  /\ thr = ThreadsNew
  /\ coll = CollectorNew
  /\ cc = ControllerNew
  /\ call \in LookupCalls \cup LinearCalls \cup PowerOf2Calls \cup ConfigCalls

FunctionNext ==
  \/ ApplyGetCurrentConcurrency
  \/ ApplyGetCurrentQps
  \/ ApplyLinearConcurrencyRamp
  \/ ApplyPowerOf2ConcurrencyRamp
  \/ ApplyLoadTestConfig

FunctionSpec == FunctionInit /\ [][FunctionNext]_vars

\* ----------------------------------------------- MetricsCollector alone
\* the query names and the durations (ms) records are made with
MetricNames == {"q1", "q2"}
Durations == {100, 200, 300}

\* RequestMetric
RequestMetric(timestamp, duration, success, query_name) ==
  [timestamp |-> timestamp, duration |-> duration, success |-> success,
   query_name |-> query_name]

\* collectors that already hold MaxPile successful records of one query
PiledCollectors ==
  {[metrics |-> [i \in 1..MaxPile |-> RequestMetric(i, d[i], TRUE, "q1")],
    summary |-> <<>>, summarized |-> 0 - 1, period |-> 1] :
     d \in [1..MaxPile -> {100, 200}]}

float_of_int(n) == [neg |-> FALSE, mag |-> MagnitudeOfInt(n)]

RECURSIVE SumOfSeq(_)
SumOfSeq(s) == IF s = <<>> THEN 0 ELSE Head(s) + SumOfSeq(Tail(s))

RECURSIVE sorted(_)
\* sorted(durations): ascending
sorted(s) ==
  IF s = <<>> THEN <<>>
  ELSE LET least == CHOOSE i \in 1..Len(s) : \A j \in 1..Len(s) : s[i] <= s[j]
       IN <<s[least]>> \o
            sorted([k \in 1..(Len(s) - 1) |-> IF k < least THEN s[k] ELSE s[k + 1]])

SeqMax(s) == CHOOSE x \in {s[i] : i \in 1..Len(s)} : \A i \in 1..Len(s) : s[i] <= x
SeqMin(s) == CHOOSE x \in {s[i] : i \in 1..Len(s)} : \A i \in 1..Len(s) : x <= s[i]

\* mutant: every record is counted as an error
errors_all(total, success) == total

\* errors = total - success
errors_of(total, success) == total - success

\* mutant: the rank is taken among the n - 1 gaps between the durations
p90_index_of_gaps(n) == int(float_times(n - 1, true_divide(9, 10)))

\* int(0.9 * len(durations)): 0.9 is the float nearest to 9/10
p90_index(n) == int(float_times(n, true_divide(9, 10)))

\* total / time_span if time_span > 0 else 0
rps_of(ms) ==
  LET stamps == [i \in 1..Len(ms) |-> ms[i].timestamp]
      time_span == SeqMax(stamps) - SeqMin(stamps)
  IN IF time_span > 0 THEN true_divide(Len(ms), time_span) ELSE float_of_int(0)

\* x + y of two floats that are not negative; sum() starts from the int 0
float_add(x, y) ==
  [neg |-> FALSE, mag |-> RoundToFloat(PlusFrom(x.mag, y.mag, Limbs, 0), FALSE)]

RECURSIVE float_sum(_)
\* sum(throughput_windows): the floats are added from left to right
float_sum(s) ==
  IF s = <<>> THEN float_of_int(0)
  ELSE float_add(float_sum(SubSeq(s, 1, Len(s) - 1)), s[Len(s)])

RECURSIVE ShortDivide(_, _, _, _)
\* the digits j..Limbs of the magnitude a divided by the int n, given the
\* remainder left by the digits before j
ShortDivide(a, n, j, r) ==
  IF j > Limbs THEN <<>>
  ELSE <<(r * Base + a[j]) \div n>> \o ShortDivide(a, n, j + 1, (r * Base + a[j]) % n)

RECURSIVE ShortRemainder(_, _, _, _)
ShortRemainder(a, n, j, r) ==
  IF j > Limbs THEN r ELSE ShortRemainder(a, n, j + 1, (r * Base + a[j]) % n)

\* x / n of a float x >= 0 and an int n > 0, correctly rounded
float_over_int(x, n) ==
  [neg |-> FALSE,
   mag |-> RoundToFloat(ShortDivide(x.mag, n, 1, 0), ShortRemainder(x.mag, n, 1, 0) # 0)]

\* min and max of floats that are not negative
FloatMin(s) ==
  CHOOSE x \in {s[i] : i \in 1..Len(s)} : \A i \in 1..Len(s) : AtLeast(s[i].mag, x.mag)
FloatMax(s) ==
  CHOOSE x \in {s[i] : i \in 1..Len(s)} : \A i \in 1..Len(s) : AtLeast(x.mag, s[i].mag)

\* window_size = 5.0; the timestamps of the model are whole seconds
window_size == 5

\* [m for m in metrics if current_time <= m.timestamp < window_end]
window_requests(ms, current_time) ==
  LET InWindow(m) == /\ current_time <= m.timestamp
                     /\ m.timestamp < current_time + window_size
  IN SelectSeq(ms, InWindow)

\* len(window_requests) / window_size if window_requests else 0
throughput(requests) ==
  IF requests # <<>> THEN true_divide(Len(requests), window_size)
  ELSE float_of_int(0)

RECURSIVE WindowStartsFrom(_, _)
\* the values current_time takes in the while loop
WindowStartsFrom(current_time, end_time) ==
  IF current_time < end_time
    THEN <<current_time>> \o WindowStartsFrom(current_time + window_size, end_time)
  ELSE <<>>

\* the windows of _calculate_throughput_windows, by their start
window_starts(ms) ==
  IF ms = <<>> THEN <<>>
  ELSE LET stamps == [i \in 1..Len(ms) |-> ms[i].timestamp]
       IN WindowStartsFrom(SeqMin(stamps), SeqMax(stamps))

\* MetricsCollector._calculate_throughput_windows
_calculate_throughput_windows(ms) ==
  LET starts == window_starts(ms)
  IN [k \in 1..Len(starts) |-> throughput(window_requests(ms, starts[k]))]

\* the "overall" entry of get_summary
overall_entry(ms) ==
  IF ms = <<>>
    THEN [total |-> 0, success |-> 0, errors |-> 0, avg_duration |-> float_of_int(0)]
  ELSE LET total == Len(ms)
           success == Cardinality({i \in 1..total : ms[i].success})
       IN [total |-> total,
           success |-> success,
           errors |-> errors_of(total, success),
           success_rate |-> float_times(100, true_divide(success, total)),
           avg_duration |->
             true_divide(SumOfSeq([i \in 1..total |-> ms[i].duration]), total),
           rps |-> rps_of(ms)]

\* the entry of one query: ms are the records of the query
query_entry(ms) ==
  LET q_total == Len(ms)
      q_success == Cardinality({i \in 1..q_total : ms[i].success})
      durations == [i \in 1..q_total |-> ms[i].duration]
      throughput_windows == _calculate_throughput_windows(ms)
  IN [total |-> q_total,
      success |-> q_success,
      errors |-> errors_of(q_total, q_success),
      success_rate |-> float_times(100, true_divide(q_success, q_total)),
      avg_duration |-> true_divide(SumOfSeq(durations), q_total),
      min_duration |-> SeqMin(durations),
      max_duration |-> SeqMax(durations),
      p90_duration |-> sorted(durations)[p90_index(Len(durations)) + 1],
      rps |-> rps_of(ms),
      avg_throughput |->
        IF throughput_windows # <<>>
          THEN float_over_int(float_sum(throughput_windows), Len(throughput_windows))
        ELSE float_of_int(0),
      min_throughput |->
        IF throughput_windows # <<>> THEN FloatMin(throughput_windows)
        ELSE float_of_int(0),
      max_throughput |->
        IF throughput_windows # <<>> THEN FloatMax(throughput_windows)
        ELSE float_of_int(0)]

\* the records of one query, in the order they were made
MetricsOf(ms, query_name) ==
  LET OfQuery(m) == m.query_name = query_name IN SelectSeq(ms, OfQuery)

\* MetricsCollector.get_summary: the overall entry and one entry per query
\* that has a record
summary_of(ms) ==
  [overall |-> overall_entry(ms),
   queries |-> [n \in {ms[i].query_name : i \in 1..Len(ms)} |->
                  query_entry(MetricsOf(ms, n))]]

\* the seconds between two records of a run: requests that complete one
\* after the other, or with a pause longer than two windows
Periods == {1, 11}

\* time.time() at a record
now(ms, period) == IF ms = <<>> THEN 1 ELSE ms[Len(ms)].timestamp + period

\* record(duration, success, query_name)
CallRecord ==
  /\ Len(coll.metrics) < MaxRecords
  /\ \E duration \in Durations, success \in BOOLEAN, query_name \in MetricNames :
       coll' = [coll EXCEPT !.metrics =
                  Append(@, RequestMetric(now(@, coll.period), duration, success,
                                          query_name))]
  /\ UNCHANGED <<runVars, trackVars, mon, obs, thr, call, cc>>

\* get_summary(): summarized is the number of records the summary is of
CallGetSummary ==
  /\ coll.summarized # Len(coll.metrics)
  /\ coll' = [coll EXCEPT !.summary = summary_of(coll.metrics),
                          !.summarized = Len(coll.metrics)]
  /\ UNCHANGED <<runVars, trackVars, mon, obs, thr, call, cc>>

MetricsInit ==
  /\ RunInit({NoPlan})
  /\ mon = MonitorNew("cluster", TRUE)
  /\ obs = TrackerNew
  /\ thr = ThreadsNew
  /\ call = CallNew
  /\ cc = ControllerNew
  /\ coll \in {[CollectorNew EXCEPT !.period = p] : p \in Periods} \cup PiledCollectors

MetricsNext ==
  \/ CallRecord
  \/ CallGetSummary

MetricsSpec == MetricsInit /\ [][MetricsNext]_vars

\* ------------------------------------------------- ConcurrencyController
\* the arguments of set_concurrency and update_concurrency
TargetCounts == 0..MaxTarget
QueryLists == {<<"q1">>, <<"q1", "q2">>}

RECURSIVE Sentinels(_)
Sentinels(n) == IF n <= 0 THEN <<>> ELSE <<Sentinel>> \o Sentinels(n - 1)

Unborn(c) == {t \in ControllerThreads : c.pc[t] = "unborn"}

\* the n threads that are created next
NextThreads(c, n) == {t \in Unborn(c) : Cardinality({u \in Unborn(c) : u < t}) < n}

\* _adjust_workers(group), on the controller c: current_count is the length
\* of active_workers[group]
_adjust_workers(c) ==
  LET current_count == Cardinality(c.active)
      target_count == c.target
      started == NextThreads(c, target_count - current_count)
  IN IF target_count > current_count
       THEN [c EXCEPT !.active = @ \cup started,
                      !.pc = [t \in ControllerThreads |->
                                IF t \in started THEN "loop" ELSE @[t]]]
     ELSE IF target_count < current_count
       THEN [c EXCEPT !.queue = @ \o Sentinels(current_count - target_count)]
     ELSE c

\* the threads _adjust_workers can still start
CanAdjust(c, target_count) ==
  target_count - Cardinality(c.active) <= Cardinality(Unborn(c))

\* start()
CallStart ==
  /\ ~cc.running
  /\ cc.calls = 0
  /\ cc' = [cc EXCEPT !.running = TRUE]
  /\ UNCHANGED <<runVars, trackVars, mon, obs, thr, call, coll>>

\* set_concurrency(group, concurrency, queries) on a started controller, the
\* whole of it under the lock
CallSetConcurrency ==
  /\ cc.running
  /\ cc.calls < MaxControllerCalls
  /\ \E concurrency \in TargetCounts, queries \in QueryLists :
       /\ CanAdjust(cc, concurrency)
       /\ cc' = _adjust_workers(
            [cc EXCEPT !.target = concurrency,
                       !.has_queue = TRUE,
                       !.queue = @ \o queries,
                       !.passed = [q \in ControllerQueries |->
                                     @[q] + Cardinality({i \in 1..Len(queries) :
                                                           queries[i] = q})],
                       !.calls = @ + 1,
                       !.raised = "none"])
  /\ UNCHANGED <<runVars, trackVars, mon, obs, thr, call, coll>>

\* update_concurrency(group, new_concurrency) on a started controller; for a
\* group that set_concurrency never saw, _adjust_workers raises KeyError
\* after the target was stored
CallUpdateConcurrency ==
  /\ cc.running
  /\ cc.calls < MaxControllerCalls
  /\ \E new_concurrency \in TargetCounts :
       LET old_concurrency == cc.target
           stored == [cc EXCEPT !.target = new_concurrency, !.calls = @ + 1,
                                !.raised = "none"]
       IN /\ CanAdjust(cc, new_concurrency)
          /\ cc' = IF new_concurrency = old_concurrency THEN stored
                   ELSE IF ~cc.has_queue THEN [stored EXCEPT !.raised = "KeyError"]
                   ELSE _adjust_workers(stored)
  /\ UNCHANGED <<runVars, trackVars, mon, obs, thr, call, coll>>

\* stop(): a None for every active worker; the joins time out or return
CallStop ==
  /\ cc.running
  /\ cc.calls < MaxControllerCalls
  /\ cc' = [cc EXCEPT !.running = FALSE,
                      !.queue = @ \o Sentinels(Cardinality(cc.active)),
                      !.calls = @ + 1,
                      !.raised = "none"]
  /\ UNCHANGED <<runVars, trackVars, mon, obs, thr, call, coll>>

\* _worker_loop: while self.running is true and the get returns an item: a
\* None breaks the loop, a query is executed. A get that times out
\* (queue.Empty) comes back to the while condition and changes nothing.
WorkerGet(t) ==
  /\ cc.pc[t] = "loop"
  /\ cc.running
  /\ cc.queue # <<>>
  /\ cc' = IF Head(cc.queue) = Sentinel
             THEN [cc EXCEPT !.queue = Tail(@), !.pc[t] = "leaving"]
           ELSE [cc EXCEPT !.queue = Tail(@), !.pc[t] = "exec",
                           !.query[t] = Head(cc.queue)]
  /\ UNCHANGED <<runVars, trackVars, mon, obs, thr, call, coll>>

\* _worker_loop: while self.running is false
WorkerLoopExit(t) ==
  /\ cc.pc[t] = "loop"
  /\ ~cc.running
  /\ cc' = [cc EXCEPT !.pc[t] = "leaving"]
  /\ UNCHANGED <<runVars, trackVars, mon, obs, thr, call, coll>>

\* execute_query_func returns: the query is put back into the queue
ExecuteReturn(t) ==
  /\ cc.pc[t] = "exec"
  /\ cc' = [cc EXCEPT !.queue = Append(@, cc.query[t]), !.query[t] = "none",
                      !.pc[t] = "loop"]
  /\ UNCHANGED <<runVars, trackVars, mon, obs, thr, call, coll>>

\* execute_query_func raises: except Exception prints the error, and the
\* loop goes on
ExecuteRaise(t) ==
  /\ cc.pc[t] = "exec"
  /\ cc' = [cc EXCEPT !.query[t] = "none", !.pc[t] = "loop"]
  /\ UNCHANGED <<runVars, trackVars, mon, obs, thr, call, coll>>

\* after the loop, under the lock: the thread removes itself from
\* active_workers and ends
WorkerRemove(t) ==
  /\ cc.pc[t] = "leaving"
  /\ cc' = [cc EXCEPT !.active = @ \ {t}, !.pc[t] = "dead"]
  /\ UNCHANGED <<runVars, trackVars, mon, obs, thr, call, coll>>

ConcurrencyInit ==
  /\ RunInit({NoPlan})
  /\ mon = MonitorNew("cluster", TRUE)
  /\ obs = TrackerNew
  /\ UnitsIdle

ConcurrencyNext ==
  \/ CallStart
  \/ CallSetConcurrency
  \/ CallUpdateConcurrency
  \/ CallStop
  \/ \E t \in ControllerThreads :
       \/ WorkerGet(t)
       \/ WorkerLoopExit(t)
       \/ ExecuteReturn(t)
       \/ ExecuteRaise(t)
       \/ WorkerRemove(t)

ConcurrencySpec == ConcurrencyInit /\ [][ConcurrencyNext]_vars

\* ================================================================== claims
InFlight(w) == pc[w] \in {"exec", "tel_ok", "err_check", "err_rec", "finally", "hung"}
RecordsOf(a) == {i \in 1..Len(metrics) : metrics[i].attempt = a}
MainPhase == ctl \in {"main_check", "main_sleep"}

\* C1: once the stop flag is set, no rate-mode or concurrency-mode worker
\* begins a request: no start_request and no executor call is made in a
\* state in which the stop flag is set.
C1_NoBeginAfterStop ==
  [][stop_event =>
       \A w \in MainWorkers : ~(pc[w] = "begin" /\ pc'[w] = "exec")]_vars

\* C2 as stated: no record is appended to the metrics collector in a state in
\* which the stop flag is set.
C2_NoRecordWhileStopped ==
  [][stop_event => metrics' = metrics]_vars

\* C2 as amended: a failed execution is recorded only if the stop check of
\* its except clause found the flag clear; if the check finds the flag set
\* the execution ends without a record.  (A success is recorded always.)
C2_ErrorDiscardedWhenStopSeen ==
  [][/\ \A w \in MainWorkers :
          (pc[w] = "err_check" /\ pc'[w] # "err_check") =>
             IF stop_event
             THEN pc'[w] = "finally" /\ metrics' = metrics
             ELSE pc'[w] = "err_rec"
     /\ (Len(metrics') > Len(metrics) /\ ~metrics'[Len(metrics')].success) =>
          \E w \in MainWorkers : pc[w] = "err_rec" /\ pc'[w] = "finally"]_vars

\* a worker whose execution failed after the stop flag was set is about to
\* end the request, and the execution has no record
C2_Witness ==
  \E w \in MainWorkers :
    /\ pc[w] = "finally"
    /\ stop_event
    /\ attempt[w] > 0
    /\ RecordsOf(attempt[w]) = {}

\* C3: an execution attempt never has two records in the metrics collector.
C3_AtMostOneRecord ==
  \A a \in 1..calls : Cardinality(RecordsOf(a)) <= 1

C5_NoWarmupRecord ==
  /\ \A i \in 1..Len(metrics) : metrics[i].query_name[1] = "main"
  /\ (ctl = "returned" /\ results.total > 0) =>
        results.total =
          Cardinality({i \in 1..Len(metrics) : metrics[i].query_name[1] = "main"})

\* a run with a warmup in which a warmup execution was made has returned a
\* summary that counts a main execution
C5_Witness ==
  /\ ctl = "returned"
  /\ config.warmup_enabled
  /\ per_query_max_concurrency[<<"warmup", 1>>] > 0
  /\ results.total > 0

\* C6: once the signal has arrived, the next evaluation of the wait loop of
\* run_test leaves the loop, whatever is left of the configured duration.
C6_SignalEndsWait ==
  [][(ctl = "main_check" /\ shutdown_initiated /\ ctl' # ctl) =>
        ctl' # "main_sleep"]_vars

\* C7: once the stop flag is set run_test comes to its end, also when a
\* worker never returns from the executor.
C7_StopLeadsToReturn ==
  stop_event ~> (ctl \in {"returned", "raised"})

\* the execution of worker w failed: it has a failure record and no success
ExecFailed(w) ==
  /\ \E i \in RecordsOf(attempt[w]) : ~metrics[i].success
  /\ \A i \in RecordsOf(attempt[w]) : ~metrics[i].success

\* C8: a worker whose execution failed and was recorded ends the request and
\* goes on with its next iteration.
C8_FailureAbsorbed ==
  [][\A w \in MainWorkers :
       (pc[w] = "finally" /\ ExecFailed(w) /\ pc'[w] # "finally") =>
          pc'[w] = "loop"]_vars

\* C9: from the start of the main phase until the stop flag is set, every one
\* of the maxValue(schedule) workers of a concurrency-mode target is alive.
C9_WorkersFixedUntilStop ==
  (MainPhase /\ ~stop_event) =>
     \A w \in Submitted :
        QC(w).load_mode = "concurrency" => pc[w] \notin {"none", "done", "crashed"}

C11_StartBelowTarget ==
  [][\A w \in MainWorkers :
       (pc[w] = "loop" /\ pc'[w] = "call" /\ QC(w).load_mode = "concurrency") =>
          concurrent_requests[Name(w)] < _get_current_concurrency(QC(w), elapsed)]_vars

\* C12: at each fire after its first a rate-mode worker moves
\* next_request_time on by exactly one interval from the intended fire time,
\* however long the execution before it took.
C12_AdvanceFromIntended ==
  [][\A w \in MainWorkers :
       (pc[w] = "qps_wait" /\ pc'[w] = "call" /\ calls > 0) =>
          next_in'[w] = next_in[w] + interval[w]]_vars

\* C13: a rate-mode worker is never still waiting for an execution to return
\* when its next fire is overdue.
C13_FireWhenDue ==
  \A w \in MainWorkers : ~(pc[w] = "exec" /\ HasSchedule(w) /\ next_in[w] < 0)

C15_WarmupAllTargets ==
  /\ (ctl = "warmup_wait" /\ ~stop_event) =>
        \A w \in SubmittedWarmup : pc[w] \notin {"none", "done", "crashed"}
  /\ \A w \in WarmupWorkers : concurrent_requests[Name(w)] <= 1

\* C16: paused becomes true only on a sample above the threshold, false only
\* on a sample at or below threshold - margin, and a sample inside the dead
\* band leaves it as it is.
C16_Hysteresis ==
  [][LET t == threshold_of(mon.kind)
         m == margin_of(mon.kind)
         polled == mon'.polls = mon.polls + 1 /\ mon'.probe = "ok"
     IN /\ (~mon.is_paused /\ mon'.is_paused) => (polled /\ mon'.sample > t)
        /\ (mon.is_paused /\ ~mon'.is_paused) => (polled /\ mon'.sample <= t - m)
        /\ (polled /\ mon'.sample > t - m /\ mon'.sample <= t) =>
              mon'.is_paused = mon.is_paused]_vars

\* a paused monitor has read a sample inside the dead band and is still paused
C16_Witness ==
  /\ mon.is_paused
  /\ mon.probe = "ok"
  /\ mon.sample > threshold_of(mon.kind) - margin_of(mon.kind)
  /\ mon.sample <= threshold_of(mon.kind)

\* C17: with callbacks registered, a step that changes paused appends
\* exactly one callback (pause for a rise, resume for a fall), any other
\* step appends none, and the callbacks alternate, starting with pause.
C17_EdgeTriggered ==
  /\ [][mon.registered =>
          IF mon'.is_paused # mon.is_paused
            THEN mon'.callbacks =
                   Append(mon.callbacks, IF mon'.is_paused THEN "pause" ELSE "resume")
            ELSE mon'.callbacks = mon.callbacks]_vars
  /\ [](\A i \in 1..Len(mon.callbacks) :
          mon.callbacks[i] = IF i % 2 = 1 THEN "pause" ELSE "resume")

\* the monitor has paused, resumed, and taken a poll that changed nothing
C17_Witness ==
  /\ mon.registered
  /\ mon.callbacks = <<"pause", "resume">>
  /\ mon.polls > 2

\* C18: a poll whose probe raises changes neither paused nor the callbacks
\* and brings the thread back to the head of its loop; the thread ends only
\* after stop_monitoring has cleared running.
C18_ProbeErrorAbsorbed ==
  [][/\ (mon.thread = "body" /\ mon'.probe = "error" /\ mon'.polls = mon.polls + 1) =>
          /\ mon'.is_paused = mon.is_paused
          /\ mon'.callbacks = mon.callbacks
          /\ mon'.running = mon.running
          /\ mon'.thread = "loop"
     /\ (mon.thread # "ended" /\ mon'.thread = "ended") => ~mon.running]_vars

\* a paused monitor whose last probe raised is in the body of its next poll
C18_Witness ==
  /\ mon.probe = "error"
  /\ mon.thread = "body"
  /\ mon.is_paused

\* C19: after N start_request calls and no end_request, the in-flight total
\* and get_max_concurrency() are N; after the N matching end_request calls
\* the total is 0 and get_max_concurrency() is still N.
C19_CountsAfterStartsAndEnds ==
  /\ obs.phase = "starts" =>
        /\ SumOver(concurrent_requests, Names) = obs.starts
        /\ get_max_concurrency = obs.starts
  /\ (obs.phase = "ends" /\ obs.ends = obs.starts) =>
        /\ SumOver(concurrent_requests, Names) = 0
        /\ get_max_concurrency = obs.starts

\* requests of two different queries were started and all were ended
C19_Witness ==
  /\ obs.phase = "ends"
  /\ obs.ends = obs.starts
  /\ obs.starts > 1
  /\ \E n1, n2 \in Names :
       n1 # n2 /\ per_query_max_concurrency[n1] > 0 /\ per_query_max_concurrency[n2] > 0

\* C20: no call lowers max_concurrency or a per-query maximum, and each
\* maximum is at least the count it is the maximum of.
C20_MaximaMonotone ==
  /\ [][/\ max_concurrency' >= max_concurrency
        /\ \A n \in Names :
             per_query_max_concurrency'[n] >= per_query_max_concurrency[n]]_vars
  /\ [](/\ max_concurrency >= SumOver(concurrent_requests, Names)
        /\ \A n \in Names : per_query_max_concurrency[n] >= concurrent_requests[n])

\* after starts, ends and a read, the maxima are above the current counts
C20_Witness ==
  /\ obs.last_read > SumOver(concurrent_requests, Names)
  /\ max_concurrency = obs.last_read
  /\ obs.ends > 0
  /\ \E n \in Names : per_query_max_concurrency[n] > concurrent_requests[n]

\* C21: no end_request drives a counter below zero: every per-query and every
\* per-group in-flight counter is >= 0 in every state, whatever sequence of
\* start_request and end_request calls was made, and an end_request call can
\* always be made (it raises nothing) while the driver has calls left.
C21_CountersNeverNegative ==
  /\ \A n \in Names : concurrent_requests[n] >= 0
  /\ \A g \in Groups \ {"None"} : obs.group_concurrent_requests[g] >= 0
  /\ obs.ends < MaxRequests => ENABLED CallEndRequest

\* more ends than starts were made (an end without a start, or a double
\* end), whose decrement was clamped
C21_Witness ==
  /\ obs.starts = 1
  /\ obs.ends >= 2
  /\ SumOver(concurrent_requests, Names) = 0
  /\ max_concurrency = 1
  /\ \A g \in Groups \ {"None"} : obs.group_concurrent_requests[g] = 0

\* C22: the calls of several threads take effect one after the other. When no
\* thread is inside a call, each per-query counter is the number of
\* start_request calls for the query that returned minus the end_request
\* calls that returned, each group counter and the total are those of the
\* requests in flight, and in every state max_concurrency is at least the
\* largest number of requests that were in flight at once.
C22_CallsAtomic ==
  /\ (\A t \in Threads : thr.pc[t] \in {"idle", "in_flight"}) =>
       /\ \A n \in SharedNames :
            concurrent_requests[n] = thr.begun[n] - thr.ended[n]
       /\ \A g \in Groups \ {"None"} :
            obs.group_concurrent_requests[g] =
              Cardinality({t \in InFlightThreads(thr.pc) : thr.query_group[t] = g})
       /\ SumOver(concurrent_requests, Names) =
            Cardinality(InFlightThreads(thr.pc))
  /\ max_concurrency >= thr.peak
  /\ \A n \in SharedNames :
       per_query_max_concurrency[n] >=
         Cardinality({t \in InFlightThreads(thr.pc) : thr.query_name[t] = n})

\* a thread waits for the lock while another is between the read and the
\* write of a counter both of them change, with a request already in flight
C22_Witness ==
  \E t, u \in Threads :
    /\ thr.lock = t
    /\ thr.pc[t] = "e49w"
    /\ thr.pc[u] = "s33"
    /\ thr.query_name[t] = thr.query_name[u]
    /\ thr.rounds[u] > 0
    /\ thr.peak = MaxThreads

\* C23: the reads are pure. A call of get_max_concurrency or of
\* get_query_max_concurrency changes no in-flight counter of a query or of a
\* group and no maximum, and in every state what get_max_concurrency
\* recomputes is the max_concurrency that is already stored.
C23_ReadsArePure ==
  /\ [][obs'.op \in {"get_max_concurrency", "get_query_max_concurrency"} =>
          /\ concurrent_requests' = concurrent_requests
          /\ max_concurrency' = max_concurrency
          /\ per_query_max_concurrency' = per_query_max_concurrency
          /\ obs'.group_concurrent_requests = obs.group_concurrent_requests]_vars
  /\ [](get_max_concurrency = max_concurrency)

\* get_max_concurrency has just been called with two requests in flight
\* and one ended
C23_Witness ==
  /\ obs.op = "get_max_concurrency"
  /\ obs.last_read = MaxRequests
  /\ obs.ends = 1
  /\ SumOver(concurrent_requests, Names) = MaxRequests - 1

RECURSIVE CumulativeEnd(_, _)
\* the elapsed time at which step i of a schedule ends
CumulativeEnd(schedule, i) ==
  IF i = 0 THEN 0 ELSE CumulativeEnd(schedule, i - 1) + schedule[i].duration_seconds

LookupDone ==
  call.done /\ call.op \in {"_get_current_concurrency", "_get_current_qps"}

\* C24: for a non-empty schedule and an elapsed time t >= 0 both lookups
\* return the value of the first step whose cumulative end is >= t (so a t on
\* a boundary belongs to the step that ends there), and the value of the last
\* step when t is beyond the end of the schedule; the result is always the
\* value of a step.
C24_LookupFirstCoveringStep ==
  LookupDone =>
    LET schedule == call.schedule
        covering == {i \in 1..Len(schedule) :
                       CumulativeEnd(schedule, i) >= call.elapsed}
    IN /\ covering # {} =>
            call.result =
              schedule[CHOOSE i \in covering : \A j \in covering : i <= j].value
       /\ call.elapsed > CumulativeEnd(schedule, Len(schedule)) =>
            call.result = schedule[Len(schedule)].value
       /\ \E i \in 1..Len(schedule) : call.result = schedule[i].value

\* a lookup exactly on the boundary between two steps of different values
\* has returned the value of the earlier step
C24_Witness ==
  /\ LookupDone
  /\ Len(call.schedule) = MaxScheduleLen
  /\ call.elapsed = CumulativeEnd(call.schedule, 2)
  /\ call.schedule[1].duration_seconds > 0
  /\ call.schedule[2].duration_seconds > 0
  /\ call.schedule[2].value # call.schedule[1].value
  /\ call.schedule[2].value # call.schedule[3].value
  /\ call.result = call.schedule[2].value

LinearDone == call.done /\ call.op = "linear_concurrency_ramp"

\* C25: linear_concurrency_ramp(start, end, steps, d) with steps > 1 returns
\* steps steps of duration d each; the lookup at elapsed 0 returns start and
\* the lookup at the total duration returns end; the values do not fall from
\* step to step when end >= start and do not rise when end < start.
C25_LinearRampEndpoints ==
  (LinearDone /\ call.steps > 1) =>
    LET ramps == call.result IN
    /\ Len(ramps) = call.steps
    /\ \A k \in 1..Len(ramps) : ramps[k].duration_seconds = call.step_duration
    /\ LookupFrom(ramps, 1, 0, 0) = call.start
    /\ LookupFrom(ramps, 1, 0, call.steps * call.step_duration) = call.end
    /\ \A k \in 1..(Len(ramps) - 1) :
         IF call.end >= call.start THEN ramps[k].value <= ramps[k + 1].value
         ELSE ramps[k].value >= ramps[k + 1].value

\* C26: a linear_concurrency_ramp call with steps <= 0 ends with a ValueError
\* and returns no schedule.
C26_NoStepsRejected ==
  (LinearDone /\ call.steps <= 0) =>
    /\ call.raised = "ValueError"
    /\ call.result = <<>>

PowerOf2Done == call.done /\ call.op = "power_of_2_concurrency_ramp"

\* C27: power_of_2_concurrency_ramp(steps, d) with steps >= 1 returns steps
\* steps of duration d each; step i has the value 2^i for i < 7 and
\* 100 + 50 * (i - 7) from i = 7 on, so step 7 is 100, and the values rise
\* strictly from step to step.
C27_PowerOf2Values ==
  (PowerOf2Done /\ call.steps >= 1) =>
    LET ramps == call.result IN
    /\ Len(ramps) = call.steps
    /\ \A k \in 1..Len(ramps) :
         /\ ramps[k].duration_seconds = call.step_duration
         /\ k <= 7 => ramps[k].value = Pow2(k - 1)
         /\ k > 7 => ramps[k].value = 100 + 50 * (k - 8)
         /\ k = 8 => ramps[k].value = 100
    /\ \A k \in 1..(Len(ramps) - 1) : ramps[k].value < ramps[k + 1].value

\* a ramp that goes through all powers of two and beyond step 7
C27_Witness ==
  /\ PowerOf2Done
  /\ call.steps = MaxSteps
  /\ call.result[7].value = 64
  /\ call.result[9].value = 150

\* the records the last summary was made of
Summarized == SubSeq(coll.metrics, 1, coll.summarized)

\* C28: get_summary of a collector without records returns an overall entry
\* with total 0, success 0, errors 0, a success_rate of 0.0 and an rps of 0.0.
C28_EmptySummary ==
  coll.summarized = 0 =>
    LET overall == coll.summary.overall IN
    /\ overall.total = 0 /\ overall.success = 0 /\ overall.errors = 0
    /\ "success_rate" \in DOMAIN overall
    /\ "rps" \in DOMAIN overall
    /\ overall.success_rate = float_of_int(0)
    /\ overall.rps = float_of_int(0)

\* what C29 says of one entry and the records it is made of
EntryCounts(entry, records) ==
  /\ entry.total = Len(records)
  /\ entry.total = entry.success + entry.errors
  /\ ~entry.success_rate.neg
  /\ AtLeast(MagnitudeOfInt(100), entry.success_rate.mag)
  /\ entry.success_rate = float_of_int(100) <=> entry.success = entry.total
  /\ entry.success_rate = float_of_int(0) <=> entry.success = 0

\* C29: in a summary of one or more records, the overall entry and the entry
\* of every query have a total that is the number of records of their scope,
\* total = success + errors, and a success_rate between 0 and 100, which is
\* 100 exactly when all records succeeded and 0 exactly when none did.
C29_CountsAddUp ==
  coll.summarized > 0 =>
    /\ EntryCounts(coll.summary.overall, Summarized)
    /\ DOMAIN coll.summary.queries =
         {Summarized[i].query_name : i \in 1..Len(Summarized)}
    /\ \A n \in DOMAIN coll.summary.queries :
         EntryCounts(coll.summary.queries[n], MetricsOf(Summarized, n))

\* a summary of records of two queries, successes and errors among them
C29_Witness ==
  /\ coll.summarized = MaxRecords
  /\ coll.summary.overall.success = 2
  /\ coll.summary.overall.errors = MaxRecords - 2
  /\ DOMAIN coll.summary.queries = MetricNames
  /\ \E n \in MetricNames :
       coll.summary.queries[n].total = 2 /\ coll.summary.queries[n].errors = 1

\* C30: the p90_duration of a query with n >= 1 records is the duration of
\* rank floor(0.9 * n) (counted from 0) among its durations in ascending
\* order, a duration of one of its records; the rank is below n; for the
\* durations 100, 200, 300 it is 300.
C30_NearestRankP90 ==
  coll.summarized > 0 =>
    \A n \in DOMAIN coll.summary.queries :
      LET records == MetricsOf(Summarized, n)
          durations == [i \in 1..Len(records) |-> records[i].duration]
          rank == (9 * Len(records)) \div 10
          p90 == coll.summary.queries[n].p90_duration
      IN /\ rank < Len(records)
         /\ \E i \in 1..Len(records) : durations[i] = p90
         /\ Cardinality({i \in 1..Len(records) : durations[i] < p90}) <= rank
         /\ Cardinality({i \in 1..Len(records) : durations[i] <= p90}) > rank
         /\ durations = <<100, 200, 300>> => p90 = 300

\* a summary of more than ten records of one query, whose p90_duration is
\* below its longest duration
C30_Witness ==
  /\ coll.summarized >= MaxPile
  /\ coll.summary.queries["q1"].total = coll.summarized
  /\ coll.summary.queries["q1"].p90_duration = 100
  /\ coll.summary.queries["q1"].max_duration = 200

\* C31: when the connectivity check fails, run_test starts no worker,
\* executes no request and returns a summary whose overall counts total,
\* success and errors are all zero.
C31_NoConnectionAllZero ==
  [][RunTestNoConnection =>
       /\ pc' = pc
       /\ calls' = calls
       /\ results'.total = 0
       /\ results'.success = 0
       /\ results'.errors = 0]_vars

\* C32: the construction of a LoadTestConfig with an empty list of queries
\* or with a duration that is not positive raises an error, so that no such
\* configuration object comes to exist.
C32_InvalidPlanRejected ==
  (/\ call.op = "LoadTestConfig"
   /\ call.done
   /\ call.queries = 0 \/ call.duration_seconds <= 0)
  => call.raised # "none"

\* positions of run_test after WARMUP_END was logged, and after the main
\* workers were submitted
AfterWarmupEnd == {"submit_main", "main_check", "main_sleep", "post_loop",
                   "join_main", "pool_exit", "summary", "returned"}
AfterSubmitMain == AfterWarmupEnd \ {"submit_main"}

\* a warmup worker leaves the while condition of _warmup_worker for a new
\* request no more once WARMUP_END is logged
NoWarmupRequestAfterEnd ==
  [][config.warmup_enabled /\ ctl \in AfterWarmupEnd =>
       \A w \in WarmupWorkers : ~(pc[w] = "w_loop" /\ pc'[w] = "w_exec")]_vars

\* C33: however the end of the warmup phase interleaves with the start of
\* the warmup workers, no warmup worker starts a request after WARMUP_END,
\* and no warmup worker is still running once the main workers are submitted.
C33_WarmupStopsEveryWorker ==
  /\ NoWarmupRequestAfterEnd
  /\ [](config.warmup_enabled /\ ctl \in AfterSubmitMain =>
          \A w \in WarmupWorkers : pc[w] \in {"none", "submitted", "done", "crashed"})

\* C34: get_summary is called only after the draining is over: while run_test
\* is in its warmup, in its wait loop or waiting for its workers no summary
\* has been produced, and at the call of get_summary the stop flag is set,
\* every future has been waited for and every worker that was started has
\* returned.
C34_SummaryAfterDrain ==
  /\ [](ctl \in InsideWith \cup {"pool_exit"} =>
          results = [total |-> 0, success |-> 0, errors |-> 0])
  /\ [][ctl = "summary" /\ ctl' = "returned" =>
          /\ stop_event
          /\ join_i > Len(futures)
          /\ \A w \in Workers : pc[w] \in {"none", "done", "crashed"}
          /\ results' = get_summary(metrics)]_vars

\* run_test has returned the summary of a run whose warmup worker and main
\* worker have both returned, the main worker after a request
C34_Witness ==
  /\ ctl = "returned"
  /\ config.warmup_enabled
  /\ results.total >= 1
  /\ \E w \in WarmupWorkers : pc[w] = "done"
  /\ \E w \in MainWorkers : pc[w] = "done"

\* a worker between monitor.start_request and the monitor.end_request of the
\* finally clause
InExecution(w) ==
  pc[w] \in {"exec", "w_exec", "hung", "tel_ok", "err_check", "err_rec", "finally"}

C36_WindowsPartitionRecords ==
  coll.summarized > 0 =>
    \A n \in DOMAIN coll.summary.queries :
      LET records == MetricsOf(Summarized, n)
          starts == window_starts(records)
          InWindow(i, k) == /\ starts[k] <= records[i].timestamp
                            /\ records[i].timestamp < starts[k] + window_size
          counts == [k \in 1..Len(starts) |-> Len(window_requests(records, starts[k]))]
      IN /\ \A i \in 1..Len(records) :
              Cardinality({k \in 1..Len(starts) : InWindow(i, k)}) = 1
         /\ SumOfSeq(counts) = coll.summary.queries[n].total
         /\ (\E k \in 1..Len(starts) : counts[k] = 0) =>
              coll.summary.queries[n].min_throughput = float_of_int(0)

\* C37: a target excluded by the schedule [0 for 1 s] gets no load: no
\* worker, main or warmup, is ever submitted for it, so that no request is
\* executed against it at any time of the run.
C37_ExcludedGetsNoLoad ==
  \A w \in Workers :
    (w.q <= Len(config.queries) /\ config.queries[w.q] = excluded_query) =>
      pc[w] = "none"

\* the main phase of C37 on its own: no main worker for an excluded target
NoMainWorkerForExcluded ==
  \A w \in MainWorkers :
    (w.q <= Len(config.queries) /\ config.queries[w.q] = excluded_query) =>
      pc[w] = "none"

\* the events that end the lifecycle of a run
Terminal == {"END", "INTERRUPTED"}

\* C38: the lifecycle events of a run are written in order: START is the
\* first; WARMUP_START and then WARMUP_END are written only with warmup
\* enabled, and before any main worker is submitted; exactly one terminal
\* event is written, once and as the last event: END by a run that reached
\* its duration, INTERRUPTED by a cancelled run.
C38_LifecycleInOrder ==
  LET log == execution_log
      at(e) == {i \in 1..Len(log) : log[i] = e}
      terminals == {i \in 1..Len(log) : log[i] \in Terminal}
  IN /\ log # <<>> => log[1] = "START"
     /\ Cardinality(at("START")) <= 1
     /\ at("WARMUP_START") \cup at("WARMUP_END") # {} => config.warmup_enabled
     /\ \A i \in at("WARMUP_END") : \E j \in at("WARMUP_START") : j < i
     /\ (config.warmup_enabled /\ \E w \in MainWorkers : pc[w] # "none") =>
          at("WARMUP_END") # {}
     /\ Cardinality(terminals) <= 1
     /\ \A i \in terminals : i = Len(log)
     /\ (ctl = "returned" /\ log # <<>>) =>
          /\ Cardinality(terminals) = 1
          /\ log[Len(log)] = status(shutdown_initiated)

\* the stop sentinels that were put into the queue have all been consumed,
\* and the workers that consumed them have ended
NoSentinelPending ==
  /\ \A i \in 1..Len(cc.queue) : cc.queue[i] # Sentinel
  /\ \A t \in ControllerThreads : cc.pc[t] # "leaving"

\* the worker threads that are alive
LiveWorkers == {t \in ControllerThreads : cc.pc[t] \in {"loop", "exec", "leaving"}}

\* C39: on a started controller, after any calls of set_concurrency and
\* update_concurrency, once no stop sentinel is pending the number of live
\* workers of the group is the target concurrency that was set last.
C39_WorkersMatchTarget ==
  (cc.running /\ cc.has_queue /\ NoSentinelPending) =>
    Cardinality(LiveWorkers) = cc.target

\* C40: while the controller runs, every query that was given to
\* set_concurrency is in rotation: each copy of it is either in the queue or
\* held by exactly one worker that executes it, whether executions return or
\* raise, so that the queue does not lose a query.
C40_QueriesStayInRotation ==
  cc.running =>
    \A q \in ControllerQueries :
      Cardinality({i \in 1..Len(cc.queue) : cc.queue[i] = q})
        + Cardinality({t \in ControllerThreads : cc.pc[t] = "exec" /\ cc.query[t] = q})
      = cc.passed[q]

====
